---- MODULE Spec2Model ----
(***************************************************************************)
(* Model of the LLM proxy (firebase-smart-on-fhir, functions/src).         *)
(*                                                                         *)
(* The specifications share the variables below.                           *)
(*   Spec      - one HTTP request through withCorsAndErrorHandling and the *)
(*               chat handlers handleChatCompletion / handleGeminiChat up  *)
(*               to the non-streaming upstream call or the entry into the  *)
(*               streaming relay.                                          *)
(*   SpecRelay - one run of a streaming relay, handleOpenAIStreaming /     *)
(*               handleGeminiStreaming, from its entry to its terminal     *)
(*               state, for each of the five implementations in the        *)
(*               sources, with the wrapper's catch around it.              *)
(*   SpecRelayFair - SpecRelay with an upstream that settles and ends.     *)
(*   SpecBuild - an accepted POST up to the provider request it builds.    *)
(*   SpecNormalize - the message normalizer on every message shape.        *)
(*   SpecRepeat - one process serving several requests in a row.           *)
(*                                                                         *)
(* Text is a sequence of one-character strings so that trim, join and      *)
(* substring tests are computed and not assumed.                           *)
(***************************************************************************)
EXTENDS Integers, Sequences, FiniteSets, TLC

VARIABLES
  req,            \* the request and the process configuration it meets
  pc,             \* position of the request in wrapper / handler / relay
  status,         \* res.statusCode
  headers,        \* response headers staged with res.set / res.setHeader
  headersSent,    \* res.headersSent
  body,           \* body sent with res.json / res.send
  written,        \* frames written with res.write, in order
  writeAttempts,  \* number of res.write calls made by the relay
  flushCalls,     \* number of res.flush calls
  endCalls,       \* number of times the response was ended
  writableEnded,  \* res.writableEnded
  upCalls,        \* upstream provider calls issued
  upState,        \* state of the upstream stream
  received,       \* upstream events delivered to the relay, in order
  thrown,         \* the error that left the handler, NoError if none
  writeFailed,    \* a downstream write (or flush) has thrown
  lateEvents,     \* upstream events delivered while writableEnded
  failure,        \* how the upstream failed: its kind and what was sent then
  normalized,     \* what buildMessages and normalizeChatMessages returned
  upRequest,      \* the provider request of the upstream call
  handled,        \* requests the process served before this one, and the
                  \* provider request each of them built
  loggedMissingKey,  \* loggedMissingOpenAiKey / loggedMissingGeminiKey
  keyErrorLogs    \* logger.error("... API key unavailable") calls so far

vars == << req, pc, status, headers, headersSent, body, written,
           writeAttempts, flushCalls, endCalls, writableEnded, upCalls,
           upState, received, thrown, writeFailed, lateEvents, failure,
           normalized, upRequest, handled, loggedMissingKey, keyErrorLogs >>

-----------------------------------------------------------------------------
(* Bounds of the model.                                                    *)

MaxMsgs == 1        \* longest messages array in a payload
MaxEvents == 3      \* most upstream events delivered to one relay run
MaxRequests == 3    \* most requests one process serves in a row

-----------------------------------------------------------------------------
(* Values.                                                                 *)

Str(s) == [t |-> "string", s |-> s]
Num == [t |-> "number"]
Absent == [t |-> "undefined"]

T(w) == << w >>                       \* a one-token text

\* object[key]
Get(o, key) == IF key \in DOMAIN o THEN o[key] ELSE Absent

NoError == [kind |-> "none"]
NoBody == [kind |-> "none"]
NoFailure == [kind |-> "none"]
NoWriteFailure == [failed |-> FALSE]

RECURSIVE TrimLeft(_)
TrimLeft(s) ==
  IF s # << >> /\ Head(s) = " " THEN TrimLeft(Tail(s)) ELSE s

RECURSIVE TrimRight(_)
TrimRight(s) ==
  IF s # << >> /\ s[Len(s)] = " " THEN TrimRight(SubSeq(s, 1, Len(s) - 1))
  ELSE s

Trim(s) == TrimRight(TrimLeft(s))

\* String.prototype.includes: sig occurs in msg as a contiguous run.
Includes(msg, sig) ==
  \E i \in 1..(Len(msg) - Len(sig) + 1) :
    SubSeq(msg, i, i + Len(sig) - 1) = sig

RECURSIVE JoinWith(_, _)
JoinWith(texts, sep) ==
  IF texts = << >> THEN << >>
  ELSE IF Len(texts) = 1 THEN texts[1]
  ELSE texts[1] \o sep \o JoinWith(Tail(texts), sep)

SeqsUpTo(S, n) == UNION { [1..k -> S] : k \in 0..n }

-----------------------------------------------------------------------------
(* Pure helpers of utils/parser.ts and middleware/auth.ts.                 *)

RECURSIVE SplitOn(_, _)
\* value.split(","): the pieces of s between the separator tokens.
SplitOn(s, sep) ==
  IF \A i \in 1..Len(s) : s[i] # sep THEN << s >>
  ELSE LET k == CHOOSE i \in 1..Len(s) :
                   s[i] = sep /\ \A j \in 1..(i - 1) : s[j] # sep
       IN << SubSeq(s, 1, k - 1) >> \o SplitOn(SubSeq(s, k + 1, Len(s)), sep)

IsNonEmpty(s) == s # << >>

\* parseList: split on commas, trim each item, drop the empty ones.
parseList(value) ==
  IF value.t = "string" /\ value.s # << >>
  THEN SelectSeq([i \in 1..Len(SplitOn(value.s, ",")) |->
                    Trim(SplitOn(value.s, ",")[i])], IsNonEmpty)
  ELSE << >>

SeqToSet(q) == { q[i] : i \in 1..Len(q) }

\* A verifyClientKey that compares the header as it came.
verifyClientKeyMut(clientKeysCfg, header) ==
  LET clientKeys == parseList(clientKeysCfg)
      providedKey == IF header.t = "string" THEN header.s ELSE << >>
  IN IF Len(clientKeys) = 0 THEN TRUE
     ELSE ~ (providedKey = << >> \/ providedKey \notin SeqToSet(clientKeys))

\* verifyClientKey: TRUE when no key is configured; otherwise the trimmed
\* x-proxy-key header must be one of the configured keys.
verifyClientKey(clientKeysCfg, header) ==
  LET clientKeys == parseList(clientKeysCfg)
      providedKey == IF header.t = "string" THEN Trim(header.s) ELSE << >>
  IN IF Len(clientKeys) = 0 THEN TRUE
     ELSE ~ (providedKey = << >> \/ providedKey \notin SeqToSet(clientKeys))

\* parseJsonBody: "throws" for a non-empty string that is not JSON, the
\* parsed object otherwise ({} when there is no body).
EmptyPayload == [messages |-> Absent, inputText |-> Absent, stream |-> FALSE]

parseJsonBody(b) ==
  IF b.t = "none" THEN [ok |-> TRUE, payload |-> EmptyPayload]
  ELSE IF b.t = "object" THEN [ok |-> TRUE, payload |-> b.payload]
  ELSE [ok |-> FALSE, payload |-> EmptyPayload]

\* A toPlainText that finds no text part in an array.
IsTextItemMut(item) == FALSE

\* typeof item === "object" && "text" in item && typeof item.text === "string"
IsTextItem(item) ==
  item.t = "object" /\ item.text.t = "string"

ItemText(item) == item.text.s

\* toPlainText: a string as it is; an array of {text} parts joined with a
\* space (parts without a string text, and empty texts, are filtered out);
\* a single {text} object; undefined otherwise.
toPlainText(value) ==
  IF value.t = "string" THEN Str(value.s)
  ELSE IF value.t = "array"
  THEN LET keep(item) == IsTextItem(item) /\ ItemText(item) # << >>
           texts == SelectSeq(value.items, keep)
       IN IF Len(texts) > 0
          THEN Str(JoinWith([i \in 1..Len(texts) |-> ItemText(texts[i])],
                            << " " >>))
          ELSE Absent
  ELSE IF value.t = "object" /\ value.text.t = "string" THEN Str(value.text.s)
  ELSE Absent

\* rawImages.filter(...).map(...): the entries that are objects with a
\* string data, as {data, mimeType}.
NormalizeImages(rawImages) ==
  LET IsImage(img) == img.t = "object" /\ Get(img, "data").t = "string"
      images == SelectSeq(rawImages, IsImage)
  IN [i \in 1..Len(images) |->
        [data |-> images[i].data.s, mimeType |-> Get(images[i], "mimeType")]]

\* One entry of normalizeChatMessages: kept when role is a string, the
\* content key is present and toPlainText gives a non-empty string; images
\* is set when the entry has a non-empty images array.
NormalizeOne(message) ==
  IF message.role.t = "string" /\ message.content.t # "undefined"
  THEN LET content == toPlainText(message.content)
           rawImages == Get(message, "images")
       IN IF content.t = "string" /\ content.s # << >>
          THEN IF rawImages.t = "array" /\ Len(rawImages.items) > 0
               THEN << [role |-> message.role.s, content |-> content.s,
                        images |-> NormalizeImages(rawImages.items)] >>
               ELSE << [role |-> message.role.s, content |-> content.s] >>
          ELSE << >>
  ELSE << >>

RECURSIVE normalizeChatMessages(_)
normalizeChatMessages(messages) ==
  IF messages = << >> THEN << >>
  ELSE NormalizeOne(Head(messages)) \o normalizeChatMessages(Tail(messages))

\* A buildMessages that puts a generic system message before the user
\* message it makes of inputText.
buildMessagesMut(payload) ==
  IF payload.messages.t = "array"
  THEN [defined |-> TRUE, items |-> payload.messages.items]
  ELSE IF payload.inputText.t = "string" /\ payload.inputText.s # << >>
  THEN [defined |-> TRUE,
        items |-> << [role |-> Str(T("system")),
                      content |-> Str(<< "You are a helpful assistant." >>)],
                     [role |-> Str(T("user")), content |-> payload.inputText] >>]
  ELSE [defined |-> FALSE, items |-> << >>]

\* buildMessages: the messages array when there is one, else a single user
\* message from a non-empty inputText, else undefined.
buildMessages(payload) ==
  IF payload.messages.t = "array"
  THEN [defined |-> TRUE, items |-> payload.messages.items]
  ELSE IF payload.inputText.t = "string" /\ payload.inputText.s # << >>
  THEN [defined |-> TRUE,
        items |-> << [role |-> Str(T("user")), content |-> payload.inputText] >>]
  ELSE [defined |-> FALSE, items |-> << >>]

\* A transformMessagesForGemini that filters nothing out.
NotSystemMut(msg) == TRUE

\* filter((msg) => msg.role !== "system")
NotSystem(msg) == msg.role # T("system")

\* A matcher that takes whatever follows "data:" for the mime type and the
\* last piece for the data.
Base64MatchMut(data) ==
  IF Len(data) >= 2 /\ data[1] = "data:"
  THEN [matched |-> TRUE, mimeType |-> SubSeq(data, 2, Len(data) - 1),
        data |-> << data[Len(data)] >>]
  ELSE [matched |-> FALSE]

\* img.data.match(/^data:([^;]+);base64,(.+)$/): "data:", then everything
\* up to the first semicolon, which must open ";base64,", then a rest that
\* is not empty and holds no line break.
Base64Match(data) ==
  LET semicolonPieces == { ";base64,", ";charset=utf-8" }
      semicolons == { k \in 2..Len(data) : data[k] \in semicolonPieces }
      first == CHOOSE k \in semicolons : \A j \in semicolons : k <= j
  IN IF /\ Len(data) >= 1 /\ data[1] = "data:"
        /\ semicolons # {}
        /\ first >= 3
        /\ data[first] = ";base64,"
        /\ first < Len(data)
        /\ \A k \in (first + 1)..Len(data) : data[k] # "\n"
     THEN [matched |-> TRUE, mimeType |-> SubSeq(data, 2, first - 1),
           data |-> SubSeq(data, first + 1, Len(data))]
     ELSE [matched |-> FALSE]

\* The inline_data parts of a message's images, one per matching image.
RECURSIVE InlineDataParts(_)
InlineDataParts(images) ==
  IF images = << >> THEN << >>
  ELSE LET base64Match == Base64Match(images[1].data)
       IN (IF base64Match.matched
           THEN << [inline_data |-> [mime_type |-> base64Match.mimeType,
                                     data |-> base64Match.data]] >>
           ELSE << >>)
          \o InlineDataParts(Tail(images))

\* transformMessagesForGemini: system messages are filtered out, assistant
\* maps to model and every other role to user; parts is the text followed
\* by the inline_data of the images.
transformMessagesForGemini(messages) ==
  LET conv == SelectSeq(messages, NotSystem)
  IN [i \in 1..Len(conv) |->
        [role |-> IF conv[i].role = T("assistant") THEN T("model") ELSE T("user"),
         parts |-> << [text |-> conv[i].content] >>
                   \o (IF "images" \in DOMAIN conv[i]
                          /\ Len(conv[i].images) > 0
                       THEN InlineDataParts(conv[i].images)
                       ELSE << >>)]]

-----------------------------------------------------------------------------
(* Request builders: services/openai/utils.ts, services/gemini/utils.ts    *)
(* and the parts of the two handlers that finish the provider request.     *)
(* A JS object is a record whose absent keys are either missing or hold    *)
(* Absent; a number carries its value in tenths.                           *)

Number(n) == [t |-> "number", n |-> n, finite |-> TRUE]
NotFinite == [t |-> "number", n |-> 0, finite |-> FALSE]
Bool(b) == [t |-> "boolean", b |-> b]

\* payload[key]; the payload keeps stream as "is stream === true".
PayloadField(payload, key) ==
  IF key = "stream"
  THEN IF payload.stream THEN Bool(TRUE) ELSE Absent
  ELSE Get(payload, key)

\* JS truthiness of a value.
Truthy(v) ==
  CASE v.t = "undefined" -> FALSE
    [] v.t = "string" -> v.s # << >>
    [] v.t = "boolean" -> v.b
    [] v.t = "number" -> ~ ("n" \in DOMAIN v /\ v.finite /\ v.n = 0)
    [] OTHER -> TRUE

ALLOWED_MODEL_IDS == { << "gpt-5-", "mini" >>, << "gpt-4o" >> }

ALLOWED_OPENAI_KEYS ==
  << "messages", "model", "temperature", "max_tokens", "top_p",
     "frequency_penalty", "presence_penalty", "stop", "n", "stream",
     "logit_bias", "user", "presence_penalty", "response_format", "tools",
     "tool_choice", "parallel_tool_calls", "functions", "function_call",
     "seed" >>

DefaultOpenAiModel == << "gpt-5-", "mini" >>
DefaultTemperature == 5
UnityTemperature == 10

\* The message list as the JSON value that goes on the wire.
MessagesJson(messages) ==
  [t |-> "array",
   items |-> [i \in 1..Len(messages) |->
                [role |-> Str(messages[i].role),
                 content |-> Str(messages[i].content)]]]

\* transformMessagesForOpenAI: role and content of each message (no message
\* of the model carries images).
\* A transformMessagesForOpenAI that leaves the images out.
transformMessagesForOpenAIMut(messages) ==
  [i \in 1..Len(messages) |->
     [role |-> messages[i].role, content |-> Str(messages[i].content)]]

\* transformMessagesForOpenAI: a message with images gets the content array
\* [{type: "text", text}, {type: "image_url", image_url: {url}}, ...], any
\* other message keeps its string content.
transformMessagesForOpenAI(messages) ==
  LET HasImages(msg) == IF "images" \in DOMAIN msg THEN Len(msg.images) > 0
                        ELSE FALSE
      ImageParts(msg) ==
        [k \in 1..Len(msg.images) |->
           [type |-> "image_url", image_url |-> [url |-> msg.images[k].data]]]
  IN [i \in 1..Len(messages) |->
        [role |-> messages[i].role,
         content |->
           IF HasImages(messages[i])
           THEN [t |-> "array",
                 items |-> << [type |-> "text", text |-> messages[i].content] >>
                           \o ImageParts(messages[i])]
           ELSE Str(messages[i].content)]]

\* The projected message list as the JSON value that goes on the wire.
ProjectionJson(messages) ==
  [t |-> "array",
   items |-> [i \in 1..Len(messages) |->
                [role |-> Str(messages[i].role),
                 content |-> messages[i].content]]]

\* A sanitizeChatPayload that copies every key of the payload.
IsAllowedKeyMut(key) == TRUE

\* for (const key of allowedKeys)
IsAllowedKey(key) == key \in SeqToSet(ALLOWED_OPENAI_KEYS)

\* A sanitizeChatPayload whose default temperature drifts with the number of
\* requests the process has served.
sanitizeChatPayloadMut(payload, messages) ==
  LET keys == DOMAIN payload \cup {"messages", "model", "temperature"}
      copied == [k \in keys |->
                   IF IsAllowedKey(k) /\ PayloadField(payload, k) # Absent
                   THEN PayloadField(payload, k)
                   ELSE IF k = "messages" THEN messages ELSE Absent]
      requestedModel == IF PayloadField(payload, "model").t = "string"
                        THEN PayloadField(payload, "model") ELSE Absent
      withModel == IF Truthy(requestedModel)
                      /\ requestedModel.s \in ALLOWED_MODEL_IDS
                   THEN [copied EXCEPT !.model = requestedModel]
                   ELSE copied
      defaulted == IF ~ Truthy(withModel.model)
                   THEN [withModel EXCEPT !.model = Str(DefaultOpenAiModel)]
                   ELSE withModel
  IN IF defaulted.temperature = Absent
     THEN [defaulted EXCEPT
             !.temperature = Number(DefaultTemperature + Len(handled))]
     ELSE defaulted

\* sanitizeChatPayload: {messages}, then every allowed key the payload
\* defines, then the model and temperature defaults.
sanitizeChatPayload(payload, messages) ==
  LET keys == DOMAIN payload \cup {"messages", "model", "temperature"}
      copied == [k \in keys |->
                   IF IsAllowedKey(k) /\ PayloadField(payload, k) # Absent
                   THEN PayloadField(payload, k)
                   ELSE IF k = "messages" THEN messages ELSE Absent]
      requestedModel == IF PayloadField(payload, "model").t = "string"
                        THEN PayloadField(payload, "model") ELSE Absent
      withModel == IF Truthy(requestedModel)
                      /\ requestedModel.s \in ALLOWED_MODEL_IDS
                   THEN [copied EXCEPT !.model = requestedModel]
                   ELSE copied
      defaulted == IF ~ Truthy(withModel.model)
                   THEN [withModel EXCEPT !.model = Str(DefaultOpenAiModel)]
                   ELSE withModel
  IN IF defaulted.temperature = Absent
     THEN [defaulted EXCEPT !.temperature = Number(DefaultTemperature)]
     ELSE defaulted

\* A handler that leaves the temperature as sanitizeChatPayload gave it.
OverridesTemperatureMut(model, requestedTemp) == FALSE

\* typeof requestedTemp === "number" && requestedTemp !== 1 &&
\* model === "gpt-5-mini"
OverridesTemperature(model, requestedTemp) ==
  /\ requestedTemp.t = "number"
  /\ requestedTemp # Number(UnityTemperature)
  /\ model = Str(DefaultOpenAiModel)

\* handleChatCompletion: chatRequest as it leaves the handler.
OpenAiChatRequest(payload) ==
  LET normalizedMessages == normalizeChatMessages(buildMessages(payload).items)
      transformedMessages == transformMessagesForOpenAI(normalizedMessages)
      chatRequest == sanitizeChatPayload(payload,
                                         ProjectionJson(transformedMessages))
      model == IF Truthy(chatRequest.model) THEN chatRequest.model
               ELSE Str(DefaultOpenAiModel)
  IN IF OverridesTemperature(model, chatRequest.temperature)
     THEN [chatRequest EXCEPT !.temperature = Number(UnityTemperature)]
     ELSE chatRequest

\* The two handleOpenAIStreaming: the body of the axios call, and the
\* streamOptions given to streamText.
OpenAiStreamRequest(variant, payload) ==
  LET normalizedMessages == normalizeChatMessages(buildMessages(payload).items)
      chatRequest == OpenAiChatRequest(payload)
      model == IF Truthy(chatRequest.model) THEN chatRequest.model
               ELSE Str(DefaultOpenAiModel)
      NumberOf(v) == IF v.t = "number" THEN v ELSE Absent
  IN IF variant = "openai-axios"
     THEN [chatRequest EXCEPT
             !.messages = ProjectionJson(
                            transformMessagesForOpenAI(normalizedMessages))]
     ELSE [model |-> model,
           messages |-> MessagesJson(normalizedMessages),
           temperature |-> NumberOf(chatRequest.temperature),
           maxCompletionTokens |-> NumberOf(Get(chatRequest, "max_tokens")),
           topP |-> NumberOf(Get(chatRequest, "top_p")),
           frequencyPenalty |-> NumberOf(Get(chatRequest, "frequency_penalty")),
           presencePenalty |-> NumberOf(Get(chatRequest, "presence_penalty"))]

\* Number(value) of a string: the number its trimmed text spells, NaN for
\* any other text ("" is 0).
NumberOfString(text) ==
  LET trimmed == Trim(text)
  IN CASE trimmed = << >> -> Number(0)
       [] trimmed = << "0.3" >> -> Number(3)
       [] trimmed = << "1" >> -> Number(10)
       [] OTHER -> NotFinite

\* toNumber: a finite number as it is, a non-blank string through Number(),
\* undefined otherwise.
toNumber(value) ==
  IF value.t = "number"
  THEN IF "finite" \in DOMAIN value /\ value.finite THEN value ELSE Absent
  ELSE IF value.t = "string" /\ Trim(value.s) # << >>
  THEN LET parsed == NumberOfString(value.s)
       IN IF parsed.finite THEN parsed ELSE Absent
  ELSE Absent

\* A buildGeminiGenerationConfig that lets max_tokens win over
\* max_output_tokens.
buildGeminiGenerationConfigMut(payload) ==
  LET NumberAt(key) == IF Get(payload, key).t = "number"
                       THEN Get(payload, key) ELSE Absent
      generationConfig ==
        [t |-> "object",
         temperature |-> NumberAt("temperature"),
         topP |-> NumberAt("top_p"),
         topK |-> NumberAt("top_k"),
         maxOutputTokens |-> IF NumberAt("max_tokens") # Absent
                             THEN NumberAt("max_tokens")
                             ELSE NumberAt("max_output_tokens")]
  IN IF \A k \in {"temperature", "topP", "topK", "maxOutputTokens"} :
          generationConfig[k] = Absent
     THEN Absent
     ELSE generationConfig

\* buildGeminiGenerationConfig: the numeric tuning fields of the payload
\* under their Gemini names, undefined when there is none.
buildGeminiGenerationConfig(payload) ==
  LET NumberAt(key) == IF Get(payload, key).t = "number"
                       THEN Get(payload, key) ELSE Absent
      generationConfig ==
        [t |-> "object",
         temperature |-> NumberAt("temperature"),
         topP |-> NumberAt("top_p"),
         topK |-> NumberAt("top_k"),
         maxOutputTokens |-> IF NumberAt("max_output_tokens") # Absent
                             THEN NumberAt("max_output_tokens")
                             ELSE NumberAt("max_tokens")]
  IN IF \A k \in {"temperature", "topP", "topK", "maxOutputTokens"} :
          generationConfig[k] = Absent
     THEN Absent
     ELSE generationConfig

\* An extractRequestedTemperature that looks at the top-level field only.
TemperatureSourcesMut(payload, generationConfig) == << >>

\* [generationConfig, payloadGenerationConfigRaw].filter(Boolean)
TemperatureSources(payload, generationConfig) ==
  LET payloadGenerationConfigRaw ==
        IF Get(payload, "generationConfig").t = "object"
        THEN Get(payload, "generationConfig")
        ELSE IF Get(payload, "generation_config").t = "object"
        THEN Get(payload, "generation_config")
        ELSE Absent
      IsObject(v) == v # Absent
  IN SelectSeq(<< generationConfig, payloadGenerationConfigRaw >>, IsObject)

\* extractRequestedTemperature: the first source whose temperature toNumber
\* accepts, the top-level field first.
extractRequestedTemperature(payload, generationConfig) ==
  LET directTemperature == toNumber(Get(payload, "temperature"))
      sources == TemperatureSources(payload, generationConfig)
      IsNumeric(source) == toNumber(Get(source, "temperature")) # Absent
      numeric == SelectSeq(sources, IsNumeric)
  IN IF directTemperature # Absent THEN directTemperature
     ELSE IF numeric # << >> THEN toNumber(Get(numeric[1], "temperature"))
     ELSE Absent

GeminiDefaultModel == << "gemini-3-", "flash", "-preview" >>

\* String.prototype.toLowerCase on the pieces of a model name.
ToLowerCase(text) ==
  [i \in 1..Len(text) |->
     CASE text[i] = "FLASH" -> "flash"
       [] text[i] = "Gemini-" -> "gemini-"
       [] OTHER -> text[i]]

\* handleGeminiChat: the model the request goes to.
GeminiModel(payload) ==
  LET model == Get(payload, "model")
  IN IF model.t = "string" /\ Trim(model.s) # << >> THEN model.s
     ELSE GeminiDefaultModel

\* model.toLowerCase().includes("flash")
IsFlash(model) == Includes(ToLowerCase(model), << "flash" >>)

\* handleGeminiChat: generationConfig as it leaves the handler.
GeminiGenerationConfig(payload) ==
  LET generationConfig == buildGeminiGenerationConfig(payload)
      requestedTemperature ==
        extractRequestedTemperature(payload, generationConfig)
      base == IF generationConfig = Absent
              THEN [t |-> "object", temperature |-> Absent, topP |-> Absent,
                    topK |-> Absent, maxOutputTokens |-> Absent]
              ELSE generationConfig
  IN IF /\ requestedTemperature.t = "number"
        /\ requestedTemperature # Number(UnityTemperature)
        /\ IsFlash(GeminiModel(payload))
     THEN [base EXCEPT !.temperature = Number(UnityTemperature)]
     ELSE generationConfig

IsSystem(msg) == msg.role = T("system")
ContentOf(messages) == [i \in 1..Len(messages) |-> messages[i].content]

\* payload["toolConfig"] ?? payload["tool_config"]
ToolConfigOf(payload) ==
  IF Get(payload, "toolConfig").t \in {"undefined", "null"}
  THEN Get(payload, "tool_config")
  ELSE Get(payload, "toolConfig")

\* handleGeminiChat: the body of the generateContent call.
GeminiRequestBody(payload) ==
  LET normalizedMessages == normalizeChatMessages(buildMessages(payload).items)
      systemMessages == SelectSeq(normalizedMessages, IsSystem)
      safetySettings == Get(payload, "safetySettings")
      tools == Get(payload, "tools")
      toolConfig == ToolConfigOf(payload)
      responseSchema == Get(payload, "responseSchema")
      responseMimeType == Get(payload, "responseMimeType")
  IN [model |-> GeminiModel(payload),
      contents |-> transformMessagesForGemini(normalizedMessages),
      systemInstruction |->
        IF Len(systemMessages) > 0
        THEN Str(JoinWith(ContentOf(systemMessages), << "\n" >>))
        ELSE Absent,
      generationConfig |-> GeminiGenerationConfig(payload),
      safetySettings |-> IF safetySettings.t = "array" THEN safetySettings
                         ELSE Absent,
      tools |-> IF tools.t = "array" THEN tools ELSE Absent,
      toolConfig |-> toolConfig,
      responseSchema |-> responseSchema,
      responseMimeType |-> IF responseMimeType.t = "string"
                           THEN responseMimeType ELSE Absent]

\* A streaming relay that sends toolConfig only when it is truthy.
StreamToolConfigMut(toolConfig) ==
  IF toolConfig.t = "null" THEN Absent ELSE toolConfig

\* The listening handleGeminiStreaming: if (toolConfig !== undefined)
\* requestBody.toolConfig = toolConfig.
StreamToolConfig(toolConfig) == toolConfig

\* The listening handleGeminiStreaming: the body of the
\* streamGenerateContent call, from the arguments the handler gives it.
GeminiStreamingBody(model, normalizedMessages, generationConfig, tools, toolConfig, safetySettings, responseSchema, responseMimeType) ==
  LET systemMessages == SelectSeq(normalizedMessages, IsSystem)
      contents == transformMessagesForGemini(normalizedMessages)
  IN [model |-> model,
      contents |-> contents,
      systemInstruction |->
        IF Len(systemMessages) > 0
        THEN Str(JoinWith(ContentOf(systemMessages), << "\n" >>))
        ELSE Absent,
      generationConfig |-> generationConfig,
      safetySettings |-> IF safetySettings.t = "array" THEN safetySettings
                         ELSE Absent,
      tools |-> IF tools.t = "array" THEN tools ELSE Absent,
      toolConfig |-> StreamToolConfig(toolConfig),
      responseSchema |-> responseSchema,
      responseMimeType |-> IF responseMimeType.t = "string"
                           THEN responseMimeType ELSE Absent]

\* handleGeminiChat: the call of the listening handleGeminiStreaming.
GeminiStreamRequest(payload) ==
  GeminiStreamingBody(
    GeminiModel(payload),
    normalizeChatMessages(buildMessages(payload).items),
    GeminiGenerationConfig(payload),
    Get(payload, "tools"),
    ToolConfigOf(payload),
    Get(payload, "safetySettings"),
    Get(payload, "responseSchema"),
    Get(payload, "responseMimeType"))

\* The streamOptions the for-await Gemini relays give to streamText.
GeminiStreamOptions(payload) ==
  LET normalizedMessages == normalizeChatMessages(buildMessages(payload).items)
      generationConfig == GeminiGenerationConfig(payload)
      NumberAt(key) == IF generationConfig = Absent THEN Absent
                       ELSE IF generationConfig[key].t = "number"
                       THEN generationConfig[key] ELSE Absent
  IN [model |-> GeminiModel(payload),
      messages |-> MessagesJson(normalizedMessages),
      temperature |-> NumberAt("temperature"),
      maxTokens |-> NumberAt("maxOutputTokens"),
      topP |-> NumberAt("topP"),
      topK |-> NumberAt("topK")]

\* The provider request a handler or relay sends for a payload.
UpstreamRequest(variant, path, payload) ==
  IF path = "openai"
  THEN IF variant = "none" THEN OpenAiChatRequest(payload)
       ELSE OpenAiStreamRequest(variant, payload)
  ELSE IF variant = "none" THEN GeminiRequestBody(payload)
       ELSE IF variant = "gemini-axios" THEN GeminiStreamRequest(payload)
       ELSE GeminiStreamOptions(payload)

NoRequest == [kind |-> "none"]
NoMessages == [kind |-> "none"]

\* buildMessages, then normalizeChatMessages on what it returned.
Normalized(payload) ==
  LET rawMessages == buildMessages(payload)
  IN IF rawMessages.defined
     THEN [kind |-> "messages", raw |-> rawMessages.items,
           list |-> normalizeChatMessages(rawMessages.items)]
     ELSE [kind |-> "undefined"]

\* The module state of config/constants.ts and the error log are as they
\* were.
ConfigUntouched == UNCHANGED << loggedMissingKey, keyErrorLogs >>

BuildUntouched ==
  /\ UNCHANGED << normalized, upRequest, handled >>
  /\ ConfigUntouched

\* A getter that logs whenever the key is missing.
LogsMissingKeyMut(hasKey, logged) == ~ hasKey

\* if (!key && !loggedMissingOpenAiKey)
LogsMissingKey(hasKey, logged) == ~ hasKey /\ ~ logged

\* getOpenAiApiKey / getGeminiApiKey: the first call that finds no key logs
\* the error and sets the provider's flag.
GetApiKey(provider, hasKey) ==
  IF LogsMissingKey(hasKey, loggedMissingKey[provider])
  THEN /\ keyErrorLogs' = [keyErrorLogs EXCEPT ![provider] = @ + 1]
       /\ loggedMissingKey' = [loggedMissingKey EXCEPT ![provider] = TRUE]
  ELSE ConfigUntouched

NothingLogged ==
  /\ loggedMissingKey = [provider \in {"openai", "gemini"} |-> FALSE]
  /\ keyErrorLogs = [provider \in {"openai", "gemini"} |-> 0]

-----------------------------------------------------------------------------
(* Requests, provider errors and the response.                             *)

RawRoles == { Str(T("user")), Str(T("system")), Num }
RawContents == { Str(<< "h" >>), Str(<< >>), Num }
RawMessages == [role : RawRoles, content : RawContents]

Payloads ==
  [messages : {Absent} \cup
              { [t |-> "array", items |-> q] : q \in SeqsUpTo(RawMessages, MaxMsgs) },
   inputText : { Absent, Str(<< >>), Str(<< "h" >>) },
   stream : BOOLEAN]

Bodies ==
  { [t |-> "none"], [t |-> "badjson"] } \cup
  { [t |-> "object", payload |-> p] : p \in Payloads }

ClientKeyConfigs == { Absent, Str(<< "k1", ",", " ", "k2" >>),
                      Str(<< " ", ",", " " >>) }
KeyHeaders == { Absent, Str(<< " ", "k2" >>), Str(<< "zz" >>), Str(<< " " >>) }

Requests ==
  [path : {"openai", "gemini"},
   method : {"POST", "GET", "OPTIONS"},
   originOk : BOOLEAN,
   clientKeysCfg : ClientKeyConfigs,
   keyHeader : KeyHeaders,
   clientKeyHeader : { Absent, Str(<< "k2" >>) },
   apiKey : BOOLEAN,
   body : Bodies]

ProviderMessages ==
  { Absent, Num, Str(<< >>), Str(<< "quota" >>), Str(<< " ", "quota", " " >>) }

ErrorBodies ==
  { Absent, Str(<< "h" >>), [t |-> "object", error |-> Absent] } \cup
  { [t |-> "object", error |-> [t |-> "object", message |-> m]] :
      m \in ProviderMessages }

ProviderStatuses == {429, 503}

\* What axios rejects with: a provider response with a non-2xx status, or
\* no response at all.
AxiosErrors ==
  { [kind |-> "axios", hasResponse |-> TRUE, status |-> st, details |-> d,
     message |-> T("Request failed with status code")] :
      st \in ProviderStatuses, d \in ErrorBodies } \cup
  { [kind |-> "axios", hasResponse |-> FALSE, status |-> 0, details |-> Absent,
     message |-> T("Network Error")] }

PlainError(msg) ==
  [kind |-> "error", hasResponse |-> FALSE, status |-> 0, details |-> Absent,
   message |-> msg]

\* extractOpenAiMessage: the trimmed details.error.message when it is a
\* string, undefined otherwise.
extractOpenAiMessage(details) ==
  IF details.t # "object" THEN Absent
  ELSE IF details.error.t # "object" THEN Absent
  ELSE IF details.error.message.t = "string"
  THEN Str(Trim(details.error.message.s))
  ELSE Absent

\* A handleError that answers 500 whatever the provider's status.
HandleErrorStatusMut(error) ==
  500

\* handleError: the status and JSON body it answers with.
HandleErrorStatus(error) ==
  IF error.kind = "axios"
  THEN IF error.hasResponse THEN error.status ELSE 500
  ELSE 500

HandleErrorBody(error) ==
  IF error.kind = "axios"
  THEN LET openAiMessage == extractOpenAiMessage(error.details)
       IN [kind |-> "json",
           error |-> IF openAiMessage.t = "string" THEN openAiMessage.s
                     ELSE error.message,
           details |-> error.details]
  ELSE [kind |-> "json", error |-> error.message, details |-> Absent]

\* res.status(st).json(b) / res.status(st).send(b): status, body, head sent,
\* response ended.
Answer(st, b) ==
  /\ status' = st
  /\ body' = b
  /\ headersSent' = TRUE
  /\ endCalls' = endCalls + 1
  /\ writableEnded' = TRUE

JsonError(msg) == [kind |-> "json", error |-> msg, details |-> Absent]

RelayUntouched ==
  UNCHANGED << written, writeAttempts, flushCalls, upState, received,
               writeFailed, lateEvents, failure >>

-----------------------------------------------------------------------------
(* The chat handlers' guards, in the order of the code.                    *)

\* A handler without its method guard.
MethodAllowedMut(method) == TRUE

\* if (req.method !== "POST")
MethodAllowed(method) == method = "POST"

\* A handler that relays every accepted request as a stream.
IsStreamingMut(payload) == TRUE

\* const isStreaming = payload["stream"] === true
IsStreaming(payload) == payload.stream

\* The message a handler takes from the provider's answer, whose text stands
\* for choices[0].message.content or for the candidates' text parts: trimmed;
\* without text, null on the OpenAI path and undefined on the Gemini path.
ExtractMessage(path, data) ==
  IF path = "openai"
  THEN IF data.text.t = "string" THEN Str(Trim(data.text.s))
       ELSE [t |-> "null"]
  ELSE IF data.text.t = "string" /\ Trim(data.text.s) # << >>
       THEN Str(Trim(data.text.s))
       ELSE Absent

\* handleChatCompletion up to its first await: which way the request goes.
handleChatCompletionGuard(r) ==
  IF ~ MethodAllowed(r.method) THEN "405"
  ELSE IF ~ verifyClientKey(r.clientKeysCfg, r.keyHeader) THEN "401"
  ELSE IF ~ r.apiKey THEN "500"
  ELSE LET parsed == parseJsonBody(r.body)
       IN IF ~ parsed.ok THEN "throw"
          ELSE IF ~ buildMessages(parsed.payload).defined THEN "400"
          ELSE IF IsStreaming(parsed.payload) THEN "stream"
          ELSE "call"

\* handleGeminiChat up to its first await.
handleGeminiChatGuard(r) ==
  IF ~ MethodAllowed(r.method) THEN "405"
  ELSE IF ~ verifyClientKey(r.clientKeysCfg, r.keyHeader) THEN "401"
  ELSE IF ~ r.apiKey THEN "500"
  ELSE LET parsed == parseJsonBody(r.body)
           rawMessages == buildMessages(parsed.payload)
           normalizedMessages == normalizeChatMessages(rawMessages.items)
       IN IF ~ parsed.ok THEN "throw"
          ELSE IF ~ rawMessages.defined THEN "400"
          ELSE IF Len(normalizedMessages) = 0 THEN "400"
          ELSE IF Len(transformMessagesForGemini(normalizedMessages)) = 0
          THEN "400"
          ELSE IF IsStreaming(parsed.payload) THEN "stream"
          ELSE "call"

\* Handlers that look for the provider's key before the client's.
ChatGuardMut(r) ==
  IF MethodAllowed(r.method) /\ ~ r.apiKey THEN "500"
  ELSE IF r.path = "openai" THEN handleChatCompletionGuard(r)
  ELSE handleGeminiChatGuard(r)

ChatGuard(r) ==
  IF r.path = "openai" THEN handleChatCompletionGuard(r)
  ELSE handleGeminiChatGuard(r)

\* The 400 message of the guard that rejected the request.
BadRequestMessage(r) ==
  LET rawMessages == buildMessages(parseJsonBody(r.body).payload)
  IN IF ~ rawMessages.defined
     THEN T("Request must include messages or inputText")
     ELSE IF Len(normalizeChatMessages(rawMessages.items)) = 0
     THEN T("No usable messages found")
     ELSE T("No user or assistant messages found")

KeyMissingMessage(r) ==
  IF r.path = "openai" THEN T("Server misconfiguration: OpenAI key missing")
  ELSE T("Server misconfiguration: Gemini key missing")

-----------------------------------------------------------------------------
(* Spec: one request through the wrapper and a chat handler.               *)

InitResponse ==
  /\ status = 200
  /\ headers = {}
  /\ headersSent = FALSE
  /\ body = NoBody
  /\ written = << >>
  /\ writeAttempts = 0
  /\ flushCalls = 0
  /\ endCalls = 0
  /\ writableEnded = FALSE
  /\ upCalls = 0
  /\ upState = "none"
  /\ received = << >>
  /\ thrown = NoError
  /\ writeFailed = NoWriteFailure
  /\ lateEvents = 0
  /\ failure = NoFailure

Init ==
  /\ req \in [variant : {"none"}, hasFlush : {FALSE}, r : Requests]
  /\ pc = "cors"
  /\ InitResponse
  /\ normalized = NoMessages
  /\ upRequest = NoRequest
  /\ handled = << >>
  /\ NothingLogged

InHandler == pc = "cors" /\ req.r.originOk /\ req.r.method # "OPTIONS"

\* withCorsAndErrorHandling: the origin is not allowed.
CorsReject ==
  /\ pc = "cors"
  /\ ~ req.r.originOk
  /\ Answer(403, JsonError(T("Not allowed by CORS")))
  /\ pc' = "done"
  /\ UNCHANGED << req, headers, upCalls, thrown >>
  /\ RelayUntouched
  /\ BuildUntouched

\* withCorsAndErrorHandling: OPTIONS is answered 204 with no body.
Preflight ==
  /\ pc = "cors"
  /\ req.r.originOk
  /\ req.r.method = "OPTIONS"
  /\ Answer(204, [kind |-> "text", text |-> << >>])
  /\ pc' = "done"
  /\ UNCHANGED << req, headers, upCalls, thrown >>
  /\ RelayUntouched
  /\ BuildUntouched

Reject405 ==
  /\ InHandler
  /\ ChatGuard(req.r) = "405"
  /\ headers' = headers \cup { << "Allow", "POST, OPTIONS" >> }
  /\ Answer(405, [kind |-> "text", text |-> T("Method not allowed")])
  /\ pc' = "done"
  /\ UNCHANGED << req, upCalls, thrown >>
  /\ RelayUntouched
  /\ BuildUntouched

Reject401 ==
  /\ InHandler
  /\ ChatGuard(req.r) = "401"
  /\ Answer(401, JsonError(T("Unauthorized")))
  /\ pc' = "done"
  /\ UNCHANGED << req, headers, upCalls, thrown >>
  /\ RelayUntouched
  /\ BuildUntouched

Reject500 ==
  /\ InHandler
  /\ ChatGuard(req.r) = "500"
  /\ GetApiKey(req.r.path, req.r.apiKey)
  /\ Answer(500, JsonError(KeyMissingMessage(req.r)))
  /\ pc' = "done"
  /\ UNCHANGED << req, headers, upCalls, thrown >>
  /\ RelayUntouched
  /\ UNCHANGED << normalized, upRequest, handled >>

\* parseJsonBody throws; the error leaves the handler.
ParseThrows ==
  /\ InHandler
  /\ ChatGuard(req.r) = "throw"
  /\ thrown' = PlainError(T("Invalid JSON payload"))
  /\ pc' = "threw"
  /\ UNCHANGED << req, status, headers, headersSent, body, endCalls,
                  writableEnded, upCalls >>
  /\ RelayUntouched
  /\ BuildUntouched

Reject400 ==
  /\ InHandler
  /\ ChatGuard(req.r) = "400"
  /\ Answer(400, JsonError(BadRequestMessage(req.r)))
  /\ pc' = "done"
  /\ UNCHANGED << req, headers, upCalls, thrown >>
  /\ RelayUntouched
  /\ normalized' = Normalized(parseJsonBody(req.r.body).payload)
  /\ upRequest' = upRequest
  /\ handled' = handled
  /\ ConfigUntouched

\* The non-streaming branch issues its single axios.post.
CallUpstream ==
  /\ InHandler
  /\ ChatGuard(req.r) = "call"
  /\ upCalls' = upCalls + 1
  /\ pc' = "awaitUpstream"
  /\ UNCHANGED << req, status, headers, headersSent, body, endCalls,
                  writableEnded, thrown >>
  /\ RelayUntouched
  /\ normalized' = Normalized(parseJsonBody(req.r.body).payload)
  /\ upRequest' = UpstreamRequest("none", req.r.path,
                                 parseJsonBody(req.r.body).payload)
  /\ handled' = handled
  /\ ConfigUntouched

\* The streaming branch calls the streaming relay.
EnterStreaming ==
  /\ InHandler
  /\ ChatGuard(req.r) = "stream"
  /\ pc' = "entered"
  /\ UNCHANGED << req, status, headers, headersSent, body, endCalls,
                  writableEnded, upCalls, thrown >>
  /\ RelayUntouched
  /\ normalized' = Normalized(parseJsonBody(req.r.body).payload)
  /\ upRequest' = upRequest
  /\ handled' = handled
  /\ ConfigUntouched

\* The provider answers 2xx: {message, <provider>Response} with status 200.
UpstreamOk ==
  /\ pc = "awaitUpstream"
  /\ \E text \in { Str(<< " ", "ok", " " >>), Absent } :
       LET data == [text |-> text]
       IN /\ received' = << [type |-> "response", v |-> data] >>
          /\ Answer(200, [kind |-> "json", error |-> << >>, details |-> Absent,
                          message |-> ExtractMessage(req.r.path, data),
                          providerResponse |-> data])
  /\ pc' = "done"
  /\ UNCHANGED << req, headers, upCalls, thrown, written, writeAttempts,
                  flushCalls, upState, writeFailed, lateEvents, failure >>
  /\ BuildUntouched

\* axios.post rejects; nothing in the handler catches it.
UpstreamFail ==
  /\ pc = "awaitUpstream"
  /\ \E e \in AxiosErrors : thrown' = e
  /\ failure' = [kind |-> "call", sent |-> headersSent]
  /\ pc' = "threw"
  /\ UNCHANGED << req, status, headers, headersSent, body, endCalls,
                  writableEnded, upCalls, written, writeAttempts, flushCalls,
                  upState, received, writeFailed, lateEvents >>
  /\ BuildUntouched

\* The wrapper's catch: handleError(error, res).  res.json throws once the
\* head has gone out, so nothing is answered and nothing ends the response.
HandleError ==
  /\ pc = "threw"
  /\ IF headersSent
     THEN /\ pc' = "hung"
          /\ UNCHANGED << status, body, headersSent, endCalls, writableEnded >>
     ELSE /\ Answer(HandleErrorStatus(thrown), HandleErrorBody(thrown))
          /\ pc' = "done"
  /\ UNCHANGED << req, headers, upCalls, thrown >>
  /\ RelayUntouched
  /\ BuildUntouched

Next ==
  \/ CorsReject
  \/ Preflight
  \/ Reject405
  \/ Reject401
  \/ Reject500
  \/ ParseThrows
  \/ Reject400
  \/ CallUpstream
  \/ EnterStreaming
  \/ UpstreamOk
  \/ UpstreamFail
  \/ HandleError

Spec == Init /\ [][Next]_vars

-----------------------------------------------------------------------------
(* SpecRelay: one run of a streaming relay.                                *)
(*                                                                         *)
(* The five implementations in the sources:                                *)
(*   openai-axios   services/openai/streaming.ts            (listeners)    *)
(*   openai-sdk     unnamed/part_002, lines 1-91            (for await)    *)
(*   gemini-sdk-v1  services/gemini/streaming.ts, 1-61      (for await)    *)
(*   gemini-sdk-v2  services/gemini/streaming.ts, 63-157    (for await)    *)
(*   gemini-axios   unnamed/part_005                        (listeners)    *)
(* The upstream stream and the client are the environment: the stream may  *)
(* deliver data, end and error events in any order until it is destroyed,  *)
(* and any res.write or res.flush may throw.                               *)

AxiosVariants == {"openai-axios", "gemini-axios"}
GuardedSdkVariants == {"openai-sdk", "gemini-sdk-v2"}
SdkVariants == GuardedSdkVariants \cup {"gemini-sdk-v1"}
Variants == AxiosVariants \cup SdkVariants

VariantPath(v) ==
  IF v \in {"openai-axios", "openai-sdk"} THEN "openai" ELSE "gemini"

Chunks == {"c1", "c2"}
FinishReasons == {"stop"}
StreamErrors == { << "boom" >>, << "read", " ", "ECONNRESET" >>,
                  << "write", " ", "EPIPE" >>, << "write after end" >> }
WriteError == << "write", " ", "EPIPE" >>

AxiosEvents ==
  { [type |-> "data", v |-> << c >>] : c \in Chunks } \cup
  { [type |-> "end", v |-> << >>] } \cup
  { [type |-> "error", v |-> m] : m \in StreamErrors }

SdkChunks ==
  { [type |-> "text-delta", v |-> << c >>] : c \in Chunks } \cup
  { [type |-> "finish", v |-> << r >>] : r \in FinishReasons } \cup
  { [type |-> "error", v |-> m] : m \in StreamErrors }

WriteOutcomes == {"ok", "writeThrows", "flushThrows"}

\* The frame res.write is given for an upstream event.
Frame(ev) ==
  CASE ev.type = "data" -> [tag |-> "raw", data |-> ev.v]
    [] ev.type = "text-delta" -> [tag |-> "0", data |-> ev.v]
    [] ev.type = "finish" -> [tag |-> "d", data |-> ev.v]
    [] OTHER -> [tag |-> "error", data |-> ev.v]

ErrorFrame(msg) == [tag |-> "error", data |-> msg]

\* The headers each relay stages before its upstream call.
StreamHeaders(v) ==
  IF v \in AxiosVariants
  THEN { << "Content-Type", "text/event-stream" >>,
         << "Cache-Control", "no-cache" >>,
         << "Connection", "keep-alive" >>,
         << "Transfer-Encoding", "chunked" >> }
  ELSE { << "Content-Type", "text/plain; charset=utf-8" >>,
         << "Cache-Control", "no-cache" >>,
         << "Connection", "keep-alive" >>,
         << "X-Vercel-AI-Data-Stream", "v1" >>,
         << "Transfer-Encoding", "chunked" >> }

\* A relay that issues its upstream call before the setHeader calls.
UpstreamCallPcMut == "entered"

\* Position of the relay at which the upstream call is issued: after the
\* setHeader calls.
UpstreamCallPc == "headersSet"

\* A data listener without its guard.
DataGuardMut(ended) == TRUE

\* if (!res.writableEnded) in the data listener.
DataGuard(ended) == ~ ended

\* An end listener that never ends the response.
EndGuardMut(ended) == FALSE

\* if (!res.writableEnded) in the end listener.
EndGuard(ended) == ~ ended

\* if (!res.writableEnded) in the error listener and in the catch.
ErrorGuard(ended) == ~ ended

\* A data listener whose catch leaves the upstream stream open.
UpstreamAfterWriteErrorMut == "open"

\* The upstream stream after the data listener's catch:
\* response.data.destroy().
UpstreamAfterWriteError == "destroyed"

\* A catch that takes every error for a disconnect.
IsBenignMut(msg) == TRUE

\* The benign-disconnect signatures of the for-await relays' catch.
IsBenign(msg) ==
  \/ Includes(msg, << "write after end" >>)
  \/ Includes(msg, << "EPIPE" >>)
  \/ Includes(msg, << "ECONNRESET" >>)

StreamRequest(path) ==
  [path |-> path, method |-> "POST", originOk |-> TRUE,
   clientKeysCfg |-> Absent, keyHeader |-> Absent, apiKey |-> TRUE,
   body |-> [t |-> "object",
             payload |-> [messages |->
                            [t |-> "array",
                             items |-> << [role |-> Str(T("user")),
                                           content |-> Str(<< "h" >>)] >>],
                          inputText |-> Absent,
                          stream |-> TRUE]]]

InitRelay ==
  /\ req \in { [variant |-> v, hasFlush |-> f, r |-> StreamRequest(VariantPath(v))] :
                 v \in Variants, f \in BOOLEAN }
  /\ pc = "entered"
  /\ InitResponse
  /\ normalized = Normalized(req.r.body.payload)
  /\ upRequest = NoRequest
  /\ handled = << >>
  /\ NothingLogged

CanFlush(o) == o = "flushThrows" => req.hasFlush

\* What the response looked like when the upstream stream first failed.
StreamFailure(m) ==
  [kind |-> "stream", sent |-> headersSent, writable |-> ~ writableEnded,
   frames |-> Len(written), error |-> PlainError(m)]

\* res.write(frame), then res.flush() when the response has one and the
\* call site flushes.
\* writeFailed keeps what had been read and attempted when a write first
\* threw: the events read so far, the one being relayed included.
WriteAndFlush(frame, o, flushes, during) ==
  /\ writeAttempts' = writeAttempts + 1
  /\ written' = IF o = "writeThrows" THEN written ELSE Append(written, frame)
  /\ flushCalls' = IF o # "writeThrows" /\ flushes /\ req.hasFlush
                   THEN flushCalls + 1 ELSE flushCalls
  /\ writeFailed' = IF o # "ok" /\ ~ writeFailed.failed
                    THEN [failed |-> TRUE, during |-> during,
                          events |-> IF during = "connecting"
                                     THEN Len(received)
                                     ELSE Len(received) + 1,
                          attempts |-> writeAttempts + 1]
                    ELSE writeFailed

\* res.setHeader x 4 (x 5 in the for-await relays).
SetHeaders ==
  /\ pc = "entered"
  /\ headers' = headers \cup StreamHeaders(req.variant)
  /\ pc' = "headersSet"
  /\ UNCHANGED << req, status, headersSent, body, endCalls, writableEnded,
                  upCalls, thrown >>
  /\ RelayUntouched
  /\ BuildUntouched

\* axios.post(..., {responseType: "stream"}) / streamText(streamOptions).
IssueUpstream ==
  /\ pc = UpstreamCallPc
  /\ upCalls' = upCalls + 1
  /\ upState' = "pending"
  /\ pc' = "connecting"
  /\ UNCHANGED << req, status, headers, headersSent, body, endCalls,
                  writableEnded, thrown, written, writeAttempts, flushCalls,
                  received, writeFailed, lateEvents, failure >>
  /\ upRequest' = UpstreamRequest(req.variant, req.r.path,
                                 parseJsonBody(req.r.body).payload)
  /\ normalized' = normalized
  /\ handled' = handled
  /\ ConfigUntouched

\* axios.post rejects: the catch writes one error frame and ends, unless
\* the write throws, which leaves the handler.
ConnectFail ==
  /\ pc = "connecting"
  /\ req.variant \in AxiosVariants
  /\ \E e \in AxiosErrors, o \in {"ok", "writeThrows"} :
       /\ failure' = [kind |-> "connect", sent |-> headersSent, error |-> e]
       /\ upState' = "failed"
       /\ IF ErrorGuard(writableEnded)
          THEN /\ WriteAndFlush(ErrorFrame(e.message), o, FALSE, "connecting")
               /\ IF o = "ok"
                  THEN /\ headersSent' = TRUE
                       /\ endCalls' = endCalls + 1
                       /\ writableEnded' = TRUE
                       /\ thrown' = thrown
                       /\ pc' = "done"
                  ELSE /\ thrown' = PlainError(WriteError)
                       /\ pc' = "threw"
                       /\ UNCHANGED << headersSent, endCalls, writableEnded >>
          ELSE /\ o = "ok"
               /\ pc' = "done"
               /\ UNCHANGED << written, writeAttempts, flushCalls, writeFailed,
                               headersSent, endCalls, writableEnded, thrown >>
  /\ UNCHANGED << req, status, headers, body, upCalls, received, lateEvents >>
  /\ BuildUntouched

\* The upstream stream is open: the axios relays register their listeners
\* and return, the for-await relays start iterating result.fullStream.
ConnectOk ==
  /\ pc = "connecting"
  /\ upState' = "open"
  /\ pc' = IF req.variant \in AxiosVariants THEN "relaying" ELSE "loop"
  /\ UNCHANGED << req, status, headers, headersSent, body, endCalls,
                  writableEnded, upCalls, thrown, written, writeAttempts,
                  flushCalls, received, writeFailed, lateEvents, failure >>
  /\ BuildUntouched

Deliver(ev) ==
  /\ Len(received) < MaxEvents
  /\ received' = Append(received, ev)
  /\ lateEvents' = IF writableEnded THEN lateEvents + 1 ELSE lateEvents

\* The end or the error of the upstream stream is delivered whatever the
\* number of events before it.
DeliverLast(ev) ==
  /\ Len(received) <= MaxEvents
  /\ received' = Append(received, ev)
  /\ lateEvents' = IF writableEnded THEN lateEvents + 1 ELSE lateEvents

\* response.data.on("data", ...)
OnData ==
  /\ pc = "relaying"
  /\ upState = "open"
  /\ \E c \in Chunks, o \in WriteOutcomes :
       /\ CanFlush(o)
       /\ Deliver([type |-> "data", v |-> << c >>])
       /\ IF DataGuard(writableEnded)
          THEN /\ WriteAndFlush(Frame([type |-> "data", v |-> << c >>]), o, TRUE,
                                "relaying")
               /\ headersSent' = (headersSent \/ o # "writeThrows")
               /\ upState' = IF o = "ok" THEN upState
                             ELSE UpstreamAfterWriteError
          ELSE /\ o = "ok"
               /\ UNCHANGED << written, writeAttempts, flushCalls, writeFailed,
                               headersSent, upState >>
  /\ UNCHANGED << req, pc, status, headers, body, endCalls, writableEnded,
                  upCalls, thrown, failure >>
  /\ BuildUntouched

\* response.data.on("end", ...)
OnEnd ==
  /\ pc = "relaying"
  /\ upState = "open"
  /\ DeliverLast([type |-> "end", v |-> << >>])
  /\ IF EndGuard(writableEnded)
     THEN /\ endCalls' = endCalls + 1
          /\ writableEnded' = TRUE
          /\ headersSent' = TRUE
     ELSE UNCHANGED << endCalls, writableEnded, headersSent >>
  /\ UNCHANGED << req, pc, status, headers, body, upCalls, upState, thrown,
                  written, writeAttempts, flushCalls, writeFailed, failure >>
  /\ BuildUntouched

\* response.data.on("error", ...): one error frame, then res.end(); a write
\* that throws here is caught by nobody.
OnError ==
  /\ pc = "relaying"
  /\ upState = "open"
  /\ \E m \in StreamErrors, o \in {"ok", "writeThrows"} :
       /\ DeliverLast([type |-> "error", v |-> m])
       /\ failure' = IF failure = NoFailure
                     THEN StreamFailure(m)
                     ELSE failure
       /\ IF ErrorGuard(writableEnded)
          THEN /\ WriteAndFlush(ErrorFrame(m), o, FALSE, "relaying")
               /\ IF o = "ok"
                  THEN /\ headersSent' = TRUE
                       /\ endCalls' = endCalls + 1
                       /\ writableEnded' = TRUE
                       /\ UNCHANGED << pc, thrown >>
                  ELSE /\ pc' = "crashed"
                       /\ thrown' = PlainError(WriteError)
                       /\ UNCHANGED << headersSent, endCalls, writableEnded >>
          ELSE /\ o = "ok"
               /\ UNCHANGED << written, writeAttempts, flushCalls, writeFailed,
                               headersSent, endCalls, writableEnded, pc,
                               thrown >>
  /\ UNCHANGED << req, status, headers, body, upCalls, upState >>
  /\ BuildUntouched

\* if (!res.writableEnded) around the writes of the for-await relays; the
\* first Gemini relay writes unconditionally.
LoopGuard(v, ended) ==
  IF v = "gemini-sdk-v1" THEN TRUE ELSE ~ ended

\* Where a throwing write leaves the loop: break in the guarded relays, the
\* exception leaves the handler in the first Gemini relay.
LoopAfterWriteError(v) ==
  IF v = "gemini-sdk-v1" THEN "threw" ELSE "afterLoop"

\* One iteration of for await (const chunk of result.fullStream).
LoopChunk ==
  /\ pc = "loop"
  /\ \E ev \in SdkChunks, o \in WriteOutcomes :
       /\ CanFlush(o)
       /\ Deliver(ev)
       /\ failure' = IF ev.type = "error" /\ failure = NoFailure
                     THEN StreamFailure(ev.v)
                     ELSE failure
       /\ CASE ev.type = "text-delta" ->
                 IF LoopGuard(req.variant, writableEnded)
                 THEN /\ WriteAndFlush(Frame(ev), o, TRUE, "relaying")
                      /\ headersSent' = (headersSent \/ o # "writeThrows")
                      /\ pc' = IF o = "ok" THEN pc
                               ELSE LoopAfterWriteError(req.variant)
                      /\ upState' = IF o = "ok" THEN upState ELSE "destroyed"
                      /\ thrown' = IF o # "ok" /\ req.variant = "gemini-sdk-v1"
                                   THEN PlainError(WriteError) ELSE thrown
                 ELSE /\ o = "ok"
                      /\ pc' = "afterLoop"
                      /\ upState' = "destroyed"
                      /\ UNCHANGED << written, writeAttempts, flushCalls,
                                      writeFailed, headersSent, thrown >>
            [] ev.type = "finish" ->
                 IF LoopGuard(req.variant, writableEnded)
                 THEN /\ o # "flushThrows"
                      /\ WriteAndFlush(Frame(ev), o, FALSE, "relaying")
                      /\ headersSent' = (headersSent \/ o = "ok")
                      /\ pc' = IF o = "ok" THEN pc
                               ELSE LoopAfterWriteError(req.variant)
                      /\ upState' = IF o = "ok" THEN upState ELSE "destroyed"
                      /\ thrown' = IF o # "ok" /\ req.variant = "gemini-sdk-v1"
                                   THEN PlainError(WriteError) ELSE thrown
                 ELSE /\ o = "ok"
                      /\ UNCHANGED << written, writeAttempts, flushCalls,
                                      writeFailed, headersSent, pc, upState,
                                      thrown >>
            [] OTHER ->
                 /\ o = "ok"
                 /\ UNCHANGED << written, writeAttempts, flushCalls,
                                 writeFailed, headersSent, pc, upState,
                                 thrown >>
  /\ UNCHANGED << req, status, headers, body, endCalls, writableEnded,
                  upCalls >>
  /\ BuildUntouched

\* result.fullStream is exhausted.
LoopDone ==
  /\ pc = "loop"
  /\ received' = Append(received, [type |-> "done", v |-> << >>])
  /\ upState' = "ended"
  /\ pc' = "afterLoop"
  /\ UNCHANGED << req, status, headers, headersSent, body, endCalls,
                  writableEnded, upCalls, thrown, written, writeAttempts,
                  flushCalls, writeFailed, lateEvents, failure >>
  /\ BuildUntouched

\* Iterating result.fullStream throws: the guarded relays swallow a benign
\* disconnect and rethrow anything else, the first Gemini relay catches
\* nothing.
LoopThrow ==
  /\ pc = "loop"
  /\ \E m \in StreamErrors :
       /\ received' = Append(received, [type |-> "throw", v |-> m])
       /\ failure' = IF failure = NoFailure
                     THEN StreamFailure(m)
                     ELSE failure
       /\ IF req.variant \in GuardedSdkVariants /\ IsBenign(m)
          THEN pc' = "afterLoop" /\ thrown' = thrown
          ELSE pc' = "threw" /\ thrown' = PlainError(m)
  /\ upState' = "errored"
  /\ UNCHANGED << req, status, headers, headersSent, body, endCalls,
                  writableEnded, upCalls, written, writeAttempts, flushCalls,
                  writeFailed, lateEvents >>
  /\ BuildUntouched

\* After the loop: res.end(), guarded by !res.writableEnded except in the
\* first Gemini relay.
AfterLoop ==
  /\ pc = "afterLoop"
  /\ IF LoopGuard(req.variant, writableEnded)
     THEN /\ endCalls' = endCalls + 1
          /\ writableEnded' = TRUE
          /\ headersSent' = TRUE
     ELSE UNCHANGED << endCalls, writableEnded, headersSent >>
  /\ pc' = "done"
  /\ UNCHANGED << req, status, headers, body, upCalls, thrown >>
  /\ RelayUntouched
  /\ BuildUntouched

NextRelay ==
  \/ SetHeaders
  \/ IssueUpstream
  \/ ConnectFail
  \/ ConnectOk
  \/ OnData
  \/ OnEnd
  \/ OnError
  \/ LoopChunk
  \/ LoopDone
  \/ LoopThrow
  \/ AfterLoop
  \/ HandleError

SpecRelay == InitRelay /\ [][NextRelay]_vars

\* SpecRelayFair: a relay run in which the upstream call settles, the
\* upstream stream ends or errors, and the handler and the wrapper run on to
\* their return.
SpecRelayFair ==
  /\ SpecRelay
  /\ WF_vars(ConnectFail \/ ConnectOk)
  /\ WF_vars(OnEnd \/ OnError)
  /\ WF_vars(LoopDone \/ LoopThrow)
  /\ WF_vars(AfterLoop)
  /\ WF_vars(HandleError)

-----------------------------------------------------------------------------
(* SpecBuild: an accepted POST with a payload that carries the tuning      *)
(* fields, from the handler to the upstream call, non-streaming or through *)
(* the head of the streaming relay.                                        *)

\* payload.messages: absent, empty, a user message, a system and a user
\* message, an entry without a string role before a user message, a user
\* message with images before one without, a user message whose images are
\* all malformed, two system messages around an assistant message and
\* before a message with another role.  The raw images are two images, an
\* object whose data is not a string, and a value that is not an object.
BuildMessageFields ==
  LET PngImage ==
        [t |-> "object",
         data |-> Str(<< "data:", "image/png", ";base64,", "AAA" >>),
         mimeType |-> Str(<< "image/png" >>)]
      UrlImage == [t |-> "object", data |-> Str(<< "http://x/y.png" >>)]
      NoDataImage == [t |-> "object", data |-> Num]
      user == [role |-> Str(T("user")), content |-> Str(<< "h" >>)]
      system == [role |-> Str(T("system")), content |-> Str(<< "h" >>)]
      noRole == [role |-> Num, content |-> Str(<< "h" >>)]
      Image(data) == [t |-> "object", data |-> Str(data)]
      WithImages(q) == [role |-> Str(T("user")), content |-> Str(<< "i" >>),
                        images |-> [t |-> "array", items |-> q]]
  IN { Absent,
       [t |-> "array", items |-> << >>],
       [t |-> "array", items |-> << user >>],
       [t |-> "array", items |-> << system, user >>],
       [t |-> "array", items |-> << noRole, user >>],
       [t |-> "array",
        items |-> << WithImages(<< PngImage, Num, NoDataImage, UrlImage >>),
                     user >>],
       [t |-> "array", items |-> << WithImages(<< NoDataImage >>) >>],
       [t |-> "array",
        items |-> << WithImages(
                       << Image(<< "data:", "image/jpeg", ";base64,", "BB",
                                   ";base64,", "CC" >>),
                          Image(<< "data:", "image/png", ";charset=utf-8",
                                   ";base64,", "AAA" >>),
                          Image(<< "data:", "image/png", ";base64,", "AA",
                                   "\n", "BB" >>),
                          Image(<< "data:", ";base64,", "AAA" >>),
                          Image(<< "data:", "image/png", ";base64," >>),
                          Image(<< "x", "data:", "image/png", ";base64,",
                                   "AAA" >>),
                          PngImage >>) >>],
       [t |-> "array",
        items |-> << [role |-> Str(T("system")), content |-> Str(<< "s1" >>)],
                     [role |-> Str(T("assistant")), content |-> Str(<< "a" >>)],
                     [role |-> Str(T("system")), content |-> Str(<< "s2" >>)],
                     [role |-> Str(T("tool")), content |-> Str(<< "t" >>)] >>] }

OpenAiPayloads ==
  [messages : BuildMessageFields,
   inputText : { Absent, Str(<< "h" >>) },
   stream : BOOLEAN,
   model : { Absent, Str(<< "gpt-5-", "mini" >>), Str(<< "gpt-4o" >>),
             Str(<< "o4-", "mini" >>), Str(<< "unknown-model" >>) },
   temperature : { Absent, Number(7), Number(10), Str(<< "0.3" >>) },
   parallel_tool_calls : { Absent, Bool(TRUE) },
   metadata : { Absent, Str(<< "h" >>) }]

\* Gemini payloads: every combination of the message, model and temperature
\* fields without the other tuning fields, and every combination of the
\* other tuning fields around one user message.
GeminiPayloads ==
  [messages : BuildMessageFields,
   inputText : { Absent, Str(<< "h" >>) },
   stream : BOOLEAN,
   model : { Absent, Str(<< " " >>), Str(<< "Gemini-", "FLASH" >>),
             Str(<< "gemini-", "pro" >>) },
   temperature : { Absent, Number(7), Number(10), Str(<< "0.3" >>), NotFinite },
   generationConfig : { Absent, [t |-> "object", temperature |-> Number(3)],
                        [t |-> "object", temperature |-> Absent] },
   generation_config : { Absent,
                         [t |-> "object", temperature |-> Str(<< "1" >>)] },
   top_p : { Absent }, top_k : { Absent },
   max_output_tokens : { Absent }, max_tokens : { Absent }]
  \cup
  [messages : { [t |-> "array",
                 items |-> << [role |-> Str(T("user")),
                               content |-> Str(<< "h" >>)] >>] },
   inputText : { Absent },
   stream : BOOLEAN,
   model : { Absent, Str(<< "gemini-", "pro" >>) },
   temperature : { Absent, Number(7), Str(<< "0.3" >>), NotFinite },
   generationConfig : { Absent },
   generation_config : { Absent },
   top_p : { Absent, Number(9), Str(<< "0.3" >>) },
   top_k : { Absent, Number(400), NotFinite },
   max_output_tokens : { Absent, Number(2560), Str(<< "1" >>) },
   max_tokens : { Absent, Number(1000), Bool(TRUE) }]
  \cup
  [messages : { [t |-> "array",
                 items |-> << [role |-> Str(T("system")),
                               content |-> Str(<< "s" >>)],
                              [role |-> Str(T("user")),
                               content |-> Str(<< "h" >>)] >>] },
   inputText : { Absent },
   stream : BOOLEAN,
   model : { Str(<< "gemini-", "pro" >>) },
   temperature : { Number(7) },
   generationConfig : { Absent },
   generation_config : { Absent },
   top_p : { Absent }, top_k : { Absent },
   max_output_tokens : { Absent }, max_tokens : { Absent },
   safetySettings : { Absent, [t |-> "array", items |-> << >>],
                      Str(<< "off" >>) },
   tools : { Absent, [t |-> "array", items |-> << Str(<< "search" >>) >>],
             [t |-> "object"] },
   toolConfig : { Absent, [t |-> "null"], [t |-> "object", mode |-> "a"] },
   tool_config : { Absent, [t |-> "null"], [t |-> "object", mode |-> "b"] },
   responseSchema : { Absent, [t |-> "object"] },
   responseMimeType : { Absent, Str(<< "application/json" >>), Num }]

BuildPayloads(path) ==
  IF path = "openai" THEN OpenAiPayloads ELSE GeminiPayloads

\* The relay a streaming payload goes to; "none" for a non-streaming one.
BuildVariants(path, payload) ==
  IF ~ payload.stream THEN {"none"}
  ELSE { v \in Variants : VariantPath(v) = path }

BuildRequest(path, payload) ==
  [path |-> path, method |-> "POST", originOk |-> TRUE,
   clientKeysCfg |-> Absent, keyHeader |-> Absent, apiKey |-> TRUE,
   body |-> [t |-> "object", payload |-> payload]]

BuildRequests(path) ==
  UNION { { [variant |-> v, hasFlush |-> FALSE,
             r |-> BuildRequest(path, payload)] :
              v \in BuildVariants(path, payload) } :
          payload \in BuildPayloads(path) }

InitBuild ==
  /\ req \in BuildRequests("openai") \cup BuildRequests("gemini")
  /\ pc = "cors"
  /\ InitResponse
  /\ normalized = NoMessages
  /\ upRequest = NoRequest
  /\ handled = << >>
  /\ NothingLogged

NextBuild ==
  \/ Reject400
  \/ CallUpstream
  \/ EnterStreaming
  \/ SetHeaders
  \/ IssueUpstream

SpecBuild == InitBuild /\ [][NextBuild]_vars

-----------------------------------------------------------------------------
(* SpecRepeat: one process serving up to MaxRequests accepted POSTs one    *)
(* after another, each from the handler to its upstream call.              *)

\* The requests of one process: an OpenAI payload whose temperature is
\* defaulted and one whose temperature is overridden, a Gemini payload with
\* and without a temperature for the default model, each non-streaming and
\* through every relay, and a payload without messages.
RepeatPayloads(path) ==
  LET userOnly == [t |-> "array",
                   items |-> << [role |-> Str(T("user")),
                                 content |-> Str(<< "h" >>)] >>]
      openai(model, temperature) ==
        [messages : {userOnly}, inputText : {Absent}, stream : BOOLEAN,
         model : {model}, temperature : {temperature},
         parallel_tool_calls : {Absent}, metadata : {Absent}]
      gemini(temperature, maxTokens, streams) ==
        [messages : {userOnly}, inputText : {Absent}, stream : streams,
         model : {Absent}, temperature : {temperature},
         generationConfig : {Absent}, generation_config : {Absent},
         top_p : {Absent}, top_k : {Absent}, max_output_tokens : {Absent},
         max_tokens : {maxTokens}]
  IN IF path = "openai"
     THEN openai(Str(<< "gpt-4o" >>), Absent)
          \cup openai(Str(<< "gpt-5-", "mini" >>), Number(7))
          \cup [messages : {Absent}, inputText : {Absent}, stream : {FALSE},
                model : {Str(<< "gpt-4o" >>)}, temperature : {Absent},
                parallel_tool_calls : {Absent}, metadata : {Absent}]
     ELSE gemini(Absent, Absent, BOOLEAN)
          \cup gemini(Number(7), Absent, BOOLEAN)
          \cup gemini(Absent, Number(1000), {FALSE})

\* The last payload of a path also meets a process without the provider's
\* key.
RepeatRequests ==
  LET WithKey ==
        UNION { { [variant |-> v, hasFlush |-> FALSE,
                   r |-> BuildRequest(path, payload)] :
                    v \in BuildVariants(path, payload) } :
                << path, payload >> \in
                  { << "openai", p >> : p \in RepeatPayloads("openai") }
                  \cup { << "gemini", p >> : p \in RepeatPayloads("gemini") } }
  IN WithKey \cup
     { [q EXCEPT !.r.apiKey = FALSE] :
         q \in { w \in WithKey : w.r.body.payload.temperature = Number(7)
                                 /\ ~ w.r.body.payload.stream } }

InitRepeat ==
  /\ req \in RepeatRequests
  /\ pc = "cors"
  /\ InitResponse
  /\ normalized = NoMessages
  /\ upRequest = NoRequest
  /\ handled = << >>
  /\ NothingLogged

\* The process is given its next request once the handler of the current
\* one has answered 400 or issued its upstream call; nothing but the module
\* itself is carried over.
NextRequest ==
  /\ pc \in {"done", "awaitUpstream", "connecting"}
  /\ Len(handled) + 1 < MaxRequests
  /\ handled' = Append(handled, [input |-> req, output |-> upRequest])
  /\ req' \in RepeatRequests
  /\ pc' = "cors"
  /\ status' = 200
  /\ headers' = {}
  /\ headersSent' = FALSE
  /\ body' = NoBody
  /\ written' = << >>
  /\ writeAttempts' = 0
  /\ flushCalls' = 0
  /\ endCalls' = 0
  /\ writableEnded' = FALSE
  /\ upCalls' = 0
  /\ upState' = "none"
  /\ received' = << >>
  /\ thrown' = NoError
  /\ writeFailed' = NoWriteFailure
  /\ lateEvents' = 0
  /\ failure' = NoFailure
  /\ normalized' = NoMessages
  /\ upRequest' = NoRequest
  /\ ConfigUntouched

NextRepeat ==
  \/ Reject500
  \/ Reject400
  \/ CallUpstream
  \/ EnterStreaming
  \/ SetHeaders
  \/ IssueUpstream
  \/ NextRequest

SpecRepeat == InitRepeat /\ [][NextRepeat]_vars

-----------------------------------------------------------------------------
(* The normalizer on its own: accepted non-streaming POSTs whose payload   *)
(* draws messages from every shape toPlainText tells apart, or carries the *)
(* free-text fields; the handler applies buildMessages and                 *)
(* normalizeChatMessages and answers 400 or calls upstream.                *)

MaxEntries == 2     \* longest messages array given to the normalizer

TextPart(s) == [t |-> "object", text |-> Str(s)]
PartsArray(q) == [t |-> "array", items |-> q]

NormalizerRoles == { Str(T("user")), Str(T("assistant")), Num }

NormalizerContents ==
  { Str(<< "h" >>), Str(<< >>), Str(<< " " >>),
    PartsArray(<< TextPart(<< "a" >>), TextPart(<< "b" >>) >>),
    PartsArray(<< TextPart(<< "a" >>), Num, TextPart(<< >>) >>),
    PartsArray(<< >>),
    TextPart(<< "c" >>),
    [t |-> "object", text |-> Num],
    Num }

NormalizerEntries == [role : NormalizerRoles, content : NormalizerContents]

MessageListPayloads ==
  [messages : { PartsArray(q) : q \in SeqsUpTo(NormalizerEntries, MaxEntries) },
   inputText : { Absent, Str(<< "h" >>) },
   promptContent : {Absent},
   systemPrompt : {Absent},
   stream : {FALSE}]

FreeTextPayloads ==
  [messages : { Absent, Str(<< "h" >>) },
   inputText : { Absent, Str(<< >>), Str(<< "h" >>), Num },
   promptContent : { Absent, Str(<< "p" >>) },
   systemPrompt : { Absent, Str(<< "s" >>) },
   stream : {FALSE}]

NormalizerPayloads == MessageListPayloads \cup FreeTextPayloads

InitNormalize ==
  /\ req \in { [variant |-> "none", hasFlush |-> FALSE,
                r |-> BuildRequest(path, payload)] :
                 path \in {"openai", "gemini"}, payload \in NormalizerPayloads }
  /\ pc = "cors"
  /\ InitResponse
  /\ normalized = NoMessages
  /\ upRequest = NoRequest
  /\ handled = << >>
  /\ NothingLogged

NextNormalize == Reject400 \/ CallUpstream

SpecNormalize == InitNormalize /\ [][NextNormalize]_vars

-----------------------------------------------------------------------------
(* Properties of the wrapper and the chat handlers, under Spec.            *)

\* C25: a request is handed to the streaming relay only when its payload
\* carries stream: true, and then never to the non-streaming call; without
\* stream: true nothing is written as a frame, no streaming header is set,
\* and when the provider answers the response is one 200 JSON body with the
\* provider's answer and the trimmed message taken from it.
C25_StreamingOnFlagOnly ==
  LET payload == parseJsonBody(req.r.body).payload
  IN /\ pc = "entered" => payload.stream
     /\ pc = "awaitUpstream" => ~ payload.stream
     /\ ~ payload.stream =>
          /\ written = << >>
          /\ \A h \in headers :
               h[1] \notin {"Content-Type", "Cache-Control", "Connection",
                            "Transfer-Encoding", "X-Vercel-AI-Data-Stream"}
          /\ (pc = "done" /\ upCalls = 1 /\ thrown = NoError) =>
               /\ status = 200
               /\ body.kind = "json"
               /\ body.providerResponse = received[1].v
               /\ received[1].v.text.t = "string" =>
                    body.message = Str(Trim(received[1].v.text.s))

\* A request without stream: true has been answered 200 with the message
\* ok, trimmed from the provider's answer.
C25_Witness ==
  /\ ~ parseJsonBody(req.r.body).payload.stream
  /\ pc = "done"
  /\ upCalls = 1
  /\ status = 200
  /\ body.message = Str(<< "ok" >>)

\* C26: when client keys are configured, a request whose X-Client-Key
\* header is one of them is not answered 401.
C26_ClientKeyHeaderAccepted ==
  ( /\ Len(parseList(req.r.clientKeysCfg)) > 0
    /\ req.r.clientKeyHeader.t = "string"
    /\ req.r.clientKeyHeader.s \in SeqToSet(parseList(req.r.clientKeysCfg)) )
  => ~ (pc = "done" /\ status = 401)

-----------------------------------------------------------------------------
(* Properties of the streaming relays, under SpecRelay.                    *)

IsIncremental(ev) == ev.type \in {"data", "text-delta", "finish"}
IsDataFrame(f) == f.tag # "error"

\* The tag a frame carries for an incremental event of each type.
ExpectedTag(type) ==
  CASE type = "data" -> "raw"
    [] type = "text-delta" -> "0"
    [] type = "finish" -> "d"

\* The run can handle nothing more: the handler has returned or thrown, or
\* the listeners' stream has ended, errored or been destroyed.
RelayTerminal ==
  \/ pc \in {"done", "hung", "crashed"}
  \/ /\ pc = "relaying"
     /\ \/ upState = "destroyed"
        \/ \E i \in 1..Len(received) : received[i].type \in {"end", "error"}

\* C1: on every path into a terminal state (natural end, stream error,
\* connection failure, downstream write failure) of a relay run, res.end
\* has been called exactly once: never zero times, never twice.
C1_EndedExactlyOnce ==
  /\ endCalls <= 1
  /\ RelayTerminal => endCalls = 1

\* C2: once res.writableEnded is true, no step (a later data, finish, end or
\* error event, in whatever order) writes or attempts a frame, or changes
\* the body.
C2_NoFrameAfterEnded ==
  [][writableEnded =>
       /\ written' = written
       /\ writeAttempts' = writeAttempts
       /\ body' = body]_vars

\* Frames were written, the response was ended, and a data event arrived
\* after that.
C2_Witness ==
  /\ writableEnded
  /\ lateEvents > 0
  /\ Len(written) > 0
  /\ received[Len(received)].type = "data"

\* C3: when a downstream write fails during relaying, the upstream stream
\* is torn down, no further upstream event is read, no further write is
\* attempted, and the handler returns without throwing.
C3_WriteFailureIsDisconnect ==
  (writeFailed.failed /\ writeFailed.during = "relaying") =>
     /\ upState = "destroyed"
     /\ Len(received) = writeFailed.events
     /\ writeAttempts = writeFailed.attempts
     /\ thrown = NoError
     /\ pc \notin {"threw", "crashed", "hung"}

\* C4: the frames written are the encoding, one frame per event and in
\* order, of a prefix of the incremental events received; an error frame
\* can only be the last frame.
C4_FramesEncodePrefix ==
  LET events == SelectSeq(received, IsIncremental)
      frames == SelectSeq(written, IsDataFrame)
  IN /\ Len(frames) <= Len(events)
     /\ \A i \in 1..Len(frames) :
          /\ frames[i].data = events[i].v
          /\ frames[i].tag = ExpectedTag(events[i].type)
     /\ \A i \in 1..Len(written) : ~ IsDataFrame(written[i]) => i = Len(written)

\* Two different events relayed in order, and a third read whose frame was
\* not written.
C4_Witness ==
  /\ Len(written) = 2
  /\ written[1] # written[2]
  /\ IsDataFrame(written[2])
  /\ Len(SelectSeq(received, IsIncremental)) = 3
  /\ writeFailed.failed

\* C5: whenever the upstream call of a streaming request has been issued,
\* the client-protocol headers (a content type, Cache-Control: no-cache,
\* Connection: keep-alive, Transfer-Encoding: chunked) are already set.
C5_HeadersBeforeUpstream ==
  upCalls > 0 =>
     /\ { << "Cache-Control", "no-cache" >>,
          << "Connection", "keep-alive" >>,
          << "Transfer-Encoding", "chunked" >> } \subseteq headers
     /\ \E h \in headers : h[1] = "Content-Type"

\* The upstream call has been issued and its stream has delivered an event.
C5_Witness ==
  /\ upCalls = 1
  /\ Len(received) > 0
  /\ << "Content-Type", "text/event-stream" >> \in headers

\* C6: when the upstream stream raises an error during relaying (the head
\* of the response has gone out) and the response is still writable,
\* exactly one error frame is written and the response is then closed;
\* when it is no longer writable, nothing is written.
C6_OneErrorFrameThenClosed ==
  (/\ failure.kind = "stream"
   /\ failure.sent
   /\ ~ writeFailed.failed
   /\ pc \in {"relaying", "done", "hung"}) =>
     IF failure.writable
     THEN /\ Len(written) = failure.frames + 1
          /\ written[Len(written)] = ErrorFrame(failure.error.message)
          /\ endCalls = 1
          /\ writableEnded
     ELSE Len(written) = failure.frames

\* C7: when a streaming request's upstream call fails before any byte has
\* been sent, the client receives the provider's status code (500 without a
\* provider response) with a JSON error body, as on the non-streaming path.
C7_ConnectFailureAsProviderError ==
  (failure.kind = "connect" /\ ~ failure.sent /\ pc = "done") =>
     /\ status = IF failure.error.hasResponse THEN failure.error.status
                 ELSE 500
     /\ body.kind = "json"
     /\ written = << >>

-----------------------------------------------------------------------------
(* Properties of the chat handlers, under Spec.                            *)

\* The provider's own error.message, as the provider's body carries it.
ProviderMessage(details) ==
  IF details.t # "object" THEN Absent
  ELSE IF details.error.t # "object" THEN Absent
  ELSE details.error.message

\* C8 as stated: a failed non-streaming upstream call is answered with the
\* provider's status (500 without a response), an error field equal to the
\* provider's error.message when that is a string and to the transport
\* message otherwise, and the raw provider body as details; the call is not
\* retried.
C8_ErrorIsProviderMessage ==
  (failure.kind = "call" /\ pc = "done") =>
     LET m == ProviderMessage(thrown.details)
     IN /\ status = IF thrown.hasResponse THEN thrown.status ELSE 500
        /\ body.kind = "json"
        /\ body.error = IF m.t = "string" THEN m.s ELSE thrown.message
        /\ body.details = thrown.details
        /\ upCalls = 1

\* C8 amended: as above, the error field being the provider's error.message
\* with its surrounding whitespace trimmed.
C8_ErrorIsTrimmedProviderMessage ==
  (failure.kind = "call" /\ pc = "done") =>
     LET m == ProviderMessage(thrown.details)
     IN /\ status = IF thrown.hasResponse THEN thrown.status ELSE 500
        /\ body.kind = "json"
        /\ body.error = IF m.t = "string" THEN Trim(m.s) ELSE thrown.message
        /\ body.details = thrown.details
        /\ upCalls = 1

\* A provider answered 429 with a padded message, and the client has its
\* answer.
C8_Witness ==
  /\ failure.kind = "call"
  /\ pc = "done"
  /\ status = 429
  /\ ProviderMessage(thrown.details) = Str(<< " ", "quota", " " >>)
  /\ body.error = << "quota" >>

\* C9: a request that is not a POST, fails verifyClientKey or has no API
\* key configured never leads to an upstream call, streaming or not, and
\* the handler answers it 405 with Allow: POST, OPTIONS, 401, or 500 with a
\* JSON {error} body, in that order of precedence.
C9_NoUpstreamWhenRejected ==
  LET r == req.r
      notPost == r.method # "POST"
      badKey == ~ verifyClientKey(r.clientKeysCfg, r.keyHeader)
      noApiKey == ~ r.apiKey
  IN (notPost \/ badKey \/ noApiKey) =>
       /\ upCalls = 0
       /\ pc \notin {"awaitUpstream", "entered", "threw"}
       /\ (pc = "done" /\ r.originOk /\ r.method # "OPTIONS") =>
            /\ status = IF notPost THEN 405 ELSE IF badKey THEN 401 ELSE 500
            /\ notPost => << "Allow", "POST, OPTIONS" >> \in headers
            /\ (~ notPost) => body.kind = "json" /\ body.error # << >>

\* A streaming POST with a good body and an API key, answered 401 for its
\* client key.
C9_Witness ==
  /\ pc = "done"
  /\ status = 401
  /\ req.r.method = "POST"
  /\ req.r.apiKey
  /\ req.r.body.t = "object"
  /\ req.r.body.payload.stream
  /\ req.r.body.payload.inputText = Str(<< "h" >>)
  /\ upCalls = 0

\* C10: on the OpenAI and the Gemini path, a request that passes the
\* earlier guards and whose normalized message list is empty is answered
\* 400 and makes no upstream call.
C10_EmptyMessagesRejected ==
  LET r == req.r
      parsed == parseJsonBody(r.body)
      messages == normalizeChatMessages(buildMessages(parsed.payload).items)
  IN (/\ pc # "cors"
      /\ r.originOk
      /\ r.method = "POST"
      /\ verifyClientKey(r.clientKeysCfg, r.keyHeader)
      /\ r.apiKey
      /\ parsed.ok
      /\ Len(messages) = 0) =>
        /\ upCalls = 0
        /\ pc = "done"
        /\ status = 400

\* C11: a request whose body is a non-empty string that is not valid JSON
\* makes no upstream call and is answered 400 with a JSON {error: message}
\* body.
C11_InvalidJsonRejected ==
  LET r == req.r
  IN (/\ pc # "cors"
      /\ r.originOk
      /\ r.method = "POST"
      /\ verifyClientKey(r.clientKeysCfg, r.keyHeader)
      /\ r.apiKey
      /\ r.body.t = "badjson") =>
        /\ upCalls = 0
        /\ pc = "done" =>
             /\ status = 400
             /\ body.kind = "json"
             /\ body.error # << >>

\* The request reached a chat handler, which has decided on it.
HandlerDecided == pc # "cors" /\ req.r.originOk /\ req.r.method # "OPTIONS"

\* The configured client keys: the comma-separated items of the setting,
\* trimmed, without the empty ones.
ConfiguredKeys == SeqToSet(parseList(req.r.clientKeysCfg))

\* No key is configured, or the trimmed x-proxy-key header is one of the
\* configured keys.
KeyAccepted ==
  \/ ConfiguredKeys = {}
  \/ /\ req.r.keyHeader.t = "string"
     /\ Trim(req.r.keyHeader.s) \in ConfiguredKeys

\* C35: a chat handler answers with the first failing guard in the order
\* method (405), client key (401), provider key (500), message presence
\* (400, for a payload with neither a messages array nor a non-empty
\* inputText): a guard that rejects gives the one response, and then the
\* provider's key is not looked up unless the two guards before it passed,
\* and the body is not parsed, so that no parse error is thrown and no
\* message list is built, unless the three guards before it passed.
C35_FirstFailingGuardDecides ==
  HandlerDecided =>
    LET r == req.r
        notPost == r.method # "POST"
        badKey == ~ KeyAccepted
        noApiKey == ~ r.apiKey
        early == notPost \/ badKey \/ noApiKey
        noMessages ==
          /\ r.body.t # "badjson"
          /\ LET payload == IF r.body.t = "object" THEN r.body.payload
                            ELSE EmptyPayload
             IN /\ payload.messages.t # "array"
                /\ ~ (payload.inputText.t = "string"
                        /\ payload.inputText.s # << >>)
    IN /\ notPost => pc = "done" /\ status = 405
       /\ (~ notPost /\ badKey) => pc = "done" /\ status = 401
       /\ (~ notPost /\ ~ badKey /\ noApiKey) =>
            /\ pc = "done" /\ status = 500
            /\ body = JsonError(KeyMissingMessage(r))
       /\ (~ early /\ noMessages) => pc = "done" /\ status = 400
       /\ (notPost \/ badKey) =>
            \A provider \in {"openai", "gemini"} : keyErrorLogs[provider] = 0
       /\ early =>
            /\ thrown = NoError
            /\ normalized = NoMessages
            /\ endCalls = 1
            /\ upCalls = 0

\* A POST with a wrong client key, no provider key and a body that is not
\* JSON was answered 401, and nothing was logged about the provider's key.
C35_Witness ==
  /\ HandlerDecided
  /\ req.r.method = "POST"
  /\ ~ KeyAccepted
  /\ ~ req.r.apiKey
  /\ req.r.body.t = "badjson"
  /\ pc = "done"
  /\ status = 401
  /\ keyErrorLogs[req.r.path] = 0

C23_OneCallOneResponse ==
  req.variant \in GuardedSdkVariants =>
    /\ upCalls <= 1
    /\ ~ (pc = "hung" /\ headersSent /\ Len(written) > 0)

\* C24: every frame a streaming relay has written is a tagged line: tag 0
\* with a text delta or tag d with a finish reason.
C24_OnlyTaggedLines ==
  \A i \in 1..Len(written) : written[i].tag \in {"0", "d"}

\* The message of the exception that ended the iteration of
\* result.fullStream, << >> when none did.
IterationError ==
  IF received # << >> /\ received[Len(received)].type = "throw"
  THEN received[Len(received)].v
  ELSE << >>

HasDisconnectSignature(msg) ==
  \E signature \in {"write after end", "EPIPE", "ECONNRESET"} :
    \E i \in 1..Len(msg) : msg[i] = signature

C30_EveryFrameFlushed ==
  req.variant \in SdkVariants =>
    flushCalls =
      IF req.hasFlush
      THEN Cardinality({ i \in 1..Len(written) : written[i].tag \in {"0", "d"} })
      ELSE 0

\* The relay run is over: the handler and the wrapper have returned or the
\* process is down, or, for the relays that listen to the upstream stream,
\* the response has been ended or the upstream stream destroyed.
RelayOver ==
  \/ pc \in {"done", "hung", "crashed"}
  \/ /\ req.variant \in AxiosVariants
     /\ pc = "relaying"
     /\ (writableEnded \/ upState = "destroyed")

\* C33: a relay run that has issued its upstream call is eventually over,
\* given that the upstream call settles and the upstream stream ends or
\* errors; once it is over it stays so, writes no frame and does not end the
\* response again.
C33_RelayTerminates ==
  /\ (upCalls > 0) ~> RelayOver
  /\ [][RelayOver => ( /\ RelayOver'
                       /\ written' = written
                       /\ endCalls' = endCalls )]_vars

\* A listening relay took MaxEvents chunks and then the end of the stream,
\* and ended the response.
C33_Witness ==
  /\ req.variant \in AxiosVariants
  /\ upCalls = 1
  /\ Len(received) = MaxEvents + 1
  /\ received[Len(received)].type = "end"
  /\ Len(written) = MaxEvents
  /\ endCalls = 1
  /\ RelayOver

-----------------------------------------------------------------------------
(* Properties of the request builders, under SpecBuild.                    *)

\* The payload of the request, and whether its upstream call has gone out
\* on the OpenAI / the Gemini path.
ClientPayload == req.r.body.payload
OpenAiSent == req.r.path = "openai" /\ upCalls > 0
GeminiSent == req.r.path = "gemini" /\ upCalls > 0

\* C12: the model of the outgoing OpenAI request is always present and is
\* the client's model when that is a member of the allow-set, the default
\* model otherwise.
C12_ModelAllowedOrDefault ==
  OpenAiSent =>
    LET requested == Get(ClientPayload, "model")
    IN upRequest.model =
         IF requested.t = "string" /\ requested.s \in ALLOWED_MODEL_IDS
         THEN requested
         ELSE Str(DefaultOpenAiModel)

\* The request went out as the JSON body of an axios call to the OpenAI
\* endpoint (streamText names its own options).
OpenAiBodySent == OpenAiSent /\ req.variant \in {"none", "openai-axios"}

\* The fields an outgoing body defines.
DefinedKeys(o) == { k \in DOMAIN o : o[k] # Absent }

\* C13 as stated: besides messages, the outgoing OpenAI body defines only
\* fields out of model, temperature, top_p, max_tokens, stop, n,
\* presence_penalty, frequency_penalty, logit_bias, user, response_format,
\* tools, tool_choice, functions, function_call and seed.
C13_OnlyListedKeys ==
  OpenAiBodySent =>
    DefinedKeys(upRequest) \subseteq
      {"messages", "model", "temperature", "top_p", "max_tokens", "stop", "n",
       "presence_penalty", "frequency_penalty", "logit_bias", "user",
       "response_format", "tools", "tool_choice", "functions",
       "function_call", "seed"}

\* C13, amended: the outgoing OpenAI body defines only messages, the sixteen
\* fields above, stream and parallel_tool_calls; a client field outside these
\* (metadata) is never forwarded, and a forwarded parallel_tool_calls or
\* stream is the client's.
C13_OnlyAllowListedKeys ==
  OpenAiBodySent =>
    /\ DefinedKeys(upRequest) \subseteq
         {"messages", "model", "temperature", "top_p", "max_tokens", "stop",
          "n", "presence_penalty", "frequency_penalty", "logit_bias", "user",
          "response_format", "tools", "tool_choice", "functions",
          "function_call", "seed", "stream", "parallel_tool_calls"}
    /\ Get(upRequest, "parallel_tool_calls")
         = Get(ClientPayload, "parallel_tool_calls")
    /\ Get(upRequest, "stream") = PayloadField(ClientPayload, "stream")

\* A request whose client sent metadata and parallel_tool_calls has gone
\* upstream with the second and without the first.
C13_Witness ==
  /\ OpenAiBodySent
  /\ Get(ClientPayload, "metadata") # Absent
  /\ Get(upRequest, "metadata") = Absent
  /\ Get(upRequest, "parallel_tool_calls") = Bool(TRUE)

\* C14: on the OpenAI path, streaming or not, the messages of the outgoing
\* request are the OpenAI projection of the normalized message list.
C14_MessagesAreProjection ==
  OpenAiSent =>
    /\ normalized.kind = "messages"
    /\ upRequest.messages
         = ProjectionJson(transformMessagesForOpenAI(normalized.list))

\* C15: on the OpenAI path, when the outgoing model name contains "mini" a
\* caller temperature other than 1, or none at all, goes out as exactly 1;
\* for any other model no temperature goes out as 0.5 and a supplied one goes
\* out unchanged.
C15_MiniForcesUnity ==
  OpenAiBodySent =>
    LET requested == Get(ClientPayload, "temperature")
        outgoing == upRequest.temperature
    IN IF upRequest.model.t = "string"
          /\ Includes(upRequest.model.s, << "mini" >>)
       THEN requested # Number(10) => outgoing = Number(10)
       ELSE outgoing = IF requested = Absent THEN Number(5) ELSE requested

\* The temperature of the outgoing Gemini request: generationConfig.temperature
\* of a request body, the temperature option of a streamText call.
OutgoingGeminiTemperature ==
  IF "generationConfig" \in DOMAIN upRequest
  THEN Get(upRequest.generationConfig, "temperature")
  ELSE upRequest.temperature

\* The first finite number among the top-level temperature, the temperature
\* of the built generationConfig and the temperature of the client's raw
\* generationConfig object (generation_config when there is no
\* generationConfig); undefined when there is none.
EffectiveRequestedTemperature ==
  LET rawConfig == IF Get(ClientPayload, "generationConfig") # Absent
                   THEN Get(ClientPayload, "generationConfig")
                   ELSE Get(ClientPayload, "generation_config")
      candidates ==
        << Get(ClientPayload, "temperature"),
           Get(buildGeminiGenerationConfig(ClientPayload), "temperature"),
           Get(rawConfig, "temperature") >>
      IsFinite(v) == toNumber(v) # Absent
      finite == SelectSeq(candidates, IsFinite)
  IN IF finite = << >> THEN Absent ELSE toNumber(finite[1])

\* C16: on the Gemini path, when the model name contains "flash" in any
\* letter case and the effective requested temperature is a number other
\* than 1, the outgoing temperature is exactly 1, in the streaming and in the
\* non-streaming request.
C16_FlashForcesUnity ==
  ( /\ GeminiSent
    /\ Includes(ToLowerCase(upRequest.model), << "flash" >>)
    /\ EffectiveRequestedTemperature # Absent
    /\ EffectiveRequestedTemperature # Number(10) )
  => OutgoingGeminiTemperature = Number(10)

\* A streaming request for Gemini-FLASH whose only temperature, 0.3, sits in
\* the raw generationConfig has gone upstream with temperature 1.
C16_Witness ==
  /\ GeminiSent
  /\ req.variant # "none"
  /\ upRequest.model = << "Gemini-", "FLASH" >>
  /\ Get(ClientPayload, "temperature") = Absent
  /\ Get(Get(ClientPayload, "generationConfig"), "temperature") = Number(3)
  /\ OutgoingGeminiTemperature = Number(10)

\* The images of a normalized message, none when it has no images field.
ImagesOf(msg) == IF "images" \in DOMAIN msg THEN msg.images ELSE << >>

\* C21: in the body the streaming OpenAI call sends, a normalized message
\* with at least one image has a content array of length 1 + image count,
\* {type: text, text: content} first and then one {type: image_url,
\* image_url: {url: data}} per image in image order; a message without
\* images keeps its role and its plain string content.
C21_ImagesProjected ==
  (OpenAiSent /\ req.variant = "openai-axios") =>
    /\ Len(upRequest.messages.items) = Len(normalized.list)
    /\ \A i \in 1..Len(normalized.list) :
         LET msg == normalized.list[i]
             out == upRequest.messages.items[i]
             images == ImagesOf(msg)
         IN /\ out.role = Str(msg.role)
            /\ IF Len(images) >= 1
               THEN /\ out.content.t = "array"
                    /\ Len(out.content.items) = 1 + Len(images)
                    /\ out.content.items[1]
                         = [type |-> "text", text |-> msg.content]
                    /\ \A k \in 1..Len(images) :
                         out.content.items[k + 1]
                           = [type |-> "image_url",
                              image_url |-> [url |-> images[k].data]]
               ELSE out.content = Str(msg.content)

\* A message with two well-formed images among four raw entries went out
\* with a three-part content, before a message with plain content.
C21_Witness ==
  /\ OpenAiSent
  /\ req.variant = "openai-axios"
  /\ Len(normalized.list) = 2
  /\ Len(ImagesOf(normalized.list[1])) = 2
  /\ upRequest.messages.items[1].content.t = "array"
  /\ Len(upRequest.messages.items[1].content.items) = 3
  /\ upRequest.messages.items[1].content.items[3].image_url.url
       = << "http://x/y.png" >>
  /\ upRequest.messages.items[2].content = Str(<< "h" >>)

\* The request went out as the JSON body of an axios call to the Gemini
\* endpoint (streamText is given the normalized messages and builds its
\* own body).
GeminiBodySent == GeminiSent /\ req.variant \in {"none", "gemini-axios"}

\* C22: in a Gemini request body, contents holds the normalized messages
\* whose role is not system, in order, with role model for assistant and
\* user for every other role; systemInstruction is the system messages'
\* texts joined with newlines in order, and is absent when there is none.
C22_SystemMessagesExtracted ==
  GeminiBodySent =>
    LET HasSystemRole(m) == m.role = << "system" >>
        HasOtherRole(m) == m.role # << "system" >>
        system == SelectSeq(normalized.list, HasSystemRole)
        others == SelectSeq(normalized.list, HasOtherRole)
    IN /\ Len(upRequest.contents) = Len(others)
       /\ \A i \in 1..Len(others) :
            /\ upRequest.contents[i].role
                 = IF others[i].role = << "assistant" >> THEN << "model" >>
                   ELSE << "user" >>
            /\ upRequest.contents[i].parts[1] = [text |-> others[i].content]
       /\ upRequest.systemInstruction
            = IF system = << >> THEN Absent
              ELSE Str(JoinWith([i \in 1..Len(system) |-> system[i].content],
                                << "\n" >>))

\* A streaming body for system, assistant, system, tool went out with the
\* contents model, user and the instruction s1, newline, s2.
C22_Witness ==
  /\ GeminiBodySent
  /\ req.variant = "gemini-axios"
  /\ Len(normalized.list) = 4
  /\ Len(upRequest.contents) = 2
  /\ upRequest.contents[1].role = << "model" >>
  /\ upRequest.contents[2].role = << "user" >>
  /\ upRequest.systemInstruction = Str(<< "s1", "\n", "s2" >>)

\* data:<mime>;base64,<payload>: the text splits at position k into
\* "data:", a mime type without a semicolon, ";base64," and a payload on
\* one line.
SplitsAt(data, k) ==
  /\ k \in 3..(Len(data) - 1)
  /\ data[1] = "data:"
  /\ data[k] = ";base64,"
  /\ \A j \in 2..(k - 1) : data[j] \notin { ";base64,", ";charset=utf-8" }
  /\ \A j \in (k + 1)..Len(data) : data[j] # "\n"

IsDataUrl(img) == \E k \in 1..Len(img.data) : SplitsAt(img.data, k)

\* C31: in a Gemini request body, the parts of every contents entry are
\* {text: content} followed by one {inline_data: {mime_type, data}} for each
\* image of the message whose data is data:<mime>;base64,<payload>, in image
\* order, with the mime type and the payload of that data; the other images
\* are left out and the message and the request go out all the same.
C31_InlineDataForDataUrls ==
  GeminiBodySent =>
    LET HasOtherRole(m) == m.role # << "system" >>
        others == SelectSeq(normalized.list, HasOtherRole)
    IN /\ Len(upRequest.contents) = Len(others)
       /\ \A i \in 1..Len(others) :
            LET parts == upRequest.contents[i].parts
                matching == SelectSeq(ImagesOf(others[i]), IsDataUrl)
            IN /\ Len(parts) = 1 + Len(matching)
               /\ parts[1] = [text |-> others[i].content]
               /\ \A n \in 1..Len(matching) :
                    \E k \in 1..Len(matching[n].data) :
                      /\ SplitsAt(matching[n].data, k)
                      /\ parts[n + 1] =
                           [inline_data |->
                              [mime_type |-> SubSeq(matching[n].data, 2, k - 1),
                               data |-> SubSeq(matching[n].data, k + 1,
                                               Len(matching[n].data))]]

\* A message with seven images, two of them data URLs, went out with the
\* text and two inline_data parts.
C31_Witness ==
  /\ GeminiBodySent
  /\ Len(normalized.list) = 1
  /\ Len(ImagesOf(normalized.list[1])) = 7
  /\ Len(upRequest.contents) = 1
  /\ upRequest.contents[1].parts =
       << [text |-> << "i" >>],
          [inline_data |-> [mime_type |-> << "image/jpeg" >>,
                            data |-> << "BB", ";base64,", "CC" >>]],
          [inline_data |-> [mime_type |-> << "image/png" >>,
                            data |-> << "AAA" >>]] >>

\* C34: the body of the streaming Gemini call is the body the non-streaming
\* branch of the handler builds for the same payload: the same contents,
\* systemInstruction, generationConfig, safetySettings, tools, toolConfig,
\* responseSchema and responseMimeType, each left out in both or in
\* neither.
C34_StreamingBodyAsNonStreaming ==
  (GeminiSent /\ req.variant = "gemini-axios") =>
    /\ DOMAIN upRequest = DOMAIN GeminiRequestBody(ClientPayload)
    /\ \A k \in DOMAIN upRequest :
         upRequest[k] = GeminiRequestBody(ClientPayload)[k]

\* A streaming body went out with a null toolConfig taken from tool_config,
\* with tools and a response type, and without safetySettings, which was
\* not an array.
C34_Witness ==
  /\ GeminiSent
  /\ req.variant = "gemini-axios"
  /\ Get(ClientPayload, "toolConfig") = Absent
  /\ Get(ClientPayload, "tool_config") = [t |-> "null"]
  /\ Get(ClientPayload, "safetySettings") = Str(<< "off" >>)
  /\ upRequest.toolConfig = [t |-> "null"]
  /\ upRequest.safetySettings = Absent
  /\ upRequest.tools.t = "array"
  /\ upRequest.responseMimeType = Str(<< "application/json" >>)
  /\ upRequest.systemInstruction = Str(<< "s" >>)
  /\ upRequest = GeminiRequestBody(ClientPayload)

\* typeof value === "number"
IsNumberValue(value) == value.t = "number"

\* The value a generation setting takes from the client's payload: the first
\* of the named payload fields that is a number, nothing when none is.
FirstNumberOf(keys) ==
  LET numeric == SelectSeq([i \in 1..Len(keys) |-> Get(ClientPayload, keys[i])],
                           IsNumberValue)
  IN IF numeric = << >> THEN Absent ELSE numeric[1]

ExpectedSettings ==
  [temperature |-> FirstNumberOf(<< "temperature" >>),
   topP |-> FirstNumberOf(<< "top_p" >>),
   topK |-> FirstNumberOf(<< "top_k" >>),
   maxOutputTokens |-> FirstNumberOf(<< "max_output_tokens", "max_tokens" >>)]

\* C27: the generationConfig of a Gemini request body holds only
\* temperature, topP, topK and maxOutputTokens; topP, topK and
\* maxOutputTokens are present exactly when top_p, top_k and
\* max_output_tokens (or else max_tokens) of the payload are numbers and
\* carry those numbers, max_output_tokens before max_tokens; when the model
\* name does not contain "flash", so that the handler leaves the built
\* object as it is, temperature is present exactly when the payload's
\* temperature is a number, and generationConfig is left out of the request
\* when none of the four is present.
C27_GenerationConfigFromNumbers ==
  GeminiBodySent =>
    LET config == upRequest.generationConfig
        flash == Includes(ToLowerCase(upRequest.model), << "flash" >>)
    IN /\ config # Absent =>
            DOMAIN config =
              {"t", "temperature", "topP", "topK", "maxOutputTokens"}
       /\ \A k \in {"topP", "topK", "maxOutputTokens"} :
            Get(config, k) = ExpectedSettings[k]
       /\ ~ flash => Get(config, "temperature") = ExpectedSettings.temperature
       /\ ~ flash =>
            ( config = Absent <=>
                \A k \in DOMAIN ExpectedSettings :
                  ExpectedSettings[k] = Absent )

C27_Witness ==
  /\ GeminiBodySent
  /\ ClientPayload.max_output_tokens = Number(2560)
  /\ ClientPayload.max_tokens = Number(1000)
  /\ ClientPayload.top_p = Str(<< "0.3" >>)
  /\ ClientPayload.top_k = NotFinite
  /\ upRequest.generationConfig # Absent
  /\ upRequest.generationConfig.maxOutputTokens = Number(2560)
  /\ upRequest.generationConfig.topP = Absent
  /\ upRequest.generationConfig.topK = NotFinite

-----------------------------------------------------------------------------
(* Properties of the request builders over several requests, under         *)
(* SpecRepeat.                                                             *)

\* The requests served so far that reached their upstream call, the current
\* one included, each with the provider request it built.
BuilderCalls ==
  LET IsCall(h) == h.output # NoRequest
  IN SelectSeq(handled, IsCall)
       \o (IF upRequest # NoRequest
           THEN << [input |-> req, output |-> upRequest] >> ELSE << >>)

C32_MissingKeyLoggedOnce ==
  \A provider \in {"openai", "gemini"} :
    LET FoundMissing(q) == q.r.path = provider /\ ~ q.r.apiKey
        found == \/ \E i \in 1..Len(handled) : FoundMissing(handled[i].input)
                 \/ (FoundMissing(req) /\ pc = "done")
    IN /\ keyErrorLogs[provider] <= 1
       /\ keyErrorLogs[provider] = 1 <=> found

\* Three requests in a row found the OpenAI key missing and were answered
\* 500; the error was logged once.
C32_Witness ==
  /\ Len(handled) = 2
  /\ \A i \in 1..2 : handled[i].input.r.path = "openai"
                      /\ ~ handled[i].input.r.apiKey
  /\ req.r.path = "openai"
  /\ ~ req.r.apiKey
  /\ pc = "done"
  /\ status = 500
  /\ keyErrorLogs["openai"] = 1
  /\ keyErrorLogs["gemini"] = 0

-----------------------------------------------------------------------------
(* Properties of the normalizer, under SpecNormalize.                      *)

\* C17: every message the normalizer returned has content that is non-empty
\* after trimming.
C17_ContentNonEmptyAfterTrim ==
  normalized.kind = "messages" =>
    \A i \in 1..Len(normalized.list) : Trim(normalized.list[i].content) # << >>

\* The text of a part of an array content, empty when it has none.
PartText(item) ==
  IF item.t = "object" THEN IF item.text.t = "string" THEN item.text.s
                            ELSE << >>
  ELSE << >>

\* The text of a raw content: a plain string, the non-empty texts of the
\* {text} parts of an array joined with a single space, the text of a single
\* {text} object; empty when the content has no text.
EntryText(content) ==
  CASE content.t = "string" -> content.s
    [] content.t = "array" ->
         LET texts == [i \in 1..Len(content.items) |-> PartText(content.items[i])]
             IsText(x) == x # << >>
         IN JoinWith(SelectSeq(texts, IsText), << " " >>)
    [] content.t = "object" -> PartText(content)
    [] OTHER -> << >>

\* The content is a plain string, a non-empty array of {text} parts only, or
\* a single {text} object.
IsListedShape(content) ==
  CASE content.t = "string" -> TRUE
    [] content.t = "array" ->
         /\ content.items # << >>
         /\ \A i \in 1..Len(content.items) :
              /\ content.items[i].t = "object"
              /\ content.items[i].text.t = "string"
    [] content.t = "object" -> content.text.t = "string"
    [] OTHER -> FALSE

RECURSIVE ListedShapeMessages(_)
\* One message, in order, for every entry with a string role and a content
\* of a listed shape.
ListedShapeMessages(raw) ==
  IF raw = << >> THEN << >>
  ELSE LET entry == Head(raw)
       IN (IF entry.role.t = "string" /\ IsListedShape(entry.content)
           THEN << [role |-> entry.role.s,
                    content |-> EntryText(entry.content)] >>
           ELSE << >>) \o ListedShapeMessages(Tail(raw))

\* C18 as stated: the normalizer returns, in order, one message for every
\* entry with a string role whose content is a plain string, an array of
\* {text} parts or a single {text} object, and nothing for any other entry.
C18_ListedShapesYieldMessages ==
  normalized.kind = "messages" =>
    normalized.list = ListedShapeMessages(normalized.raw)

RECURSIVE TextBearingMessages(_, _)
\* One message, in order, for every entry with a string role whose text is
\* non-empty after trimming, and for the entries with a whitespace-only text
\* that keepBlank selects.
TextBearingMessages(raw, keepBlank) ==
  IF raw = << >> THEN << >>
  ELSE LET entry == Head(raw)
           text == EntryText(entry.content)
           kept == /\ entry.role.t = "string"
                   /\ text # << >>
                   /\ (Trim(text) # << >> \/ Head(keepBlank))
       IN (IF kept THEN << [role |-> entry.role.s, content |-> text] >>
           ELSE << >>) \o TextBearingMessages(Tail(raw), Tail(keepBlank))

\* C18, amended: the normalizer returns an order-preserving subsequence of
\* its input with one message {role, text} for every entry with a string
\* role whose text is non-empty after trimming; an entry without a string
\* role, without text or with an empty text yields nothing.
C18_TextBearingEntriesYieldMessages ==
  normalized.kind = "messages" =>
    \E keepBlank \in [1..Len(normalized.raw) -> BOOLEAN] :
      normalized.list = TextBearingMessages(normalized.raw, keepBlank)

\* A two-entry array whose first entry has an empty string content and whose
\* second has two {text} parts was normalized to the second entry alone.
C18_Witness ==
  /\ normalized.kind = "messages"
  /\ Len(normalized.raw) = 2
  /\ normalized.raw[1].role = Str(T("user"))
  /\ normalized.raw[1].content = Str(<< >>)
  /\ normalized.raw[2].role = Str(T("assistant"))
  /\ normalized.raw[2].content
       = PartsArray(<< TextPart(<< "a" >>), TextPart(<< "b" >>) >>)
  /\ normalized.list = << [role |-> T("assistant"),
                           content |-> << "a", " ", "b" >>] >>

\* The handler has applied buildMessages to a payload without a messages
\* array.
FreeTextBuilt ==
  normalized # NoMessages /\ Get(ClientPayload, "messages").t # "array"

\* C19: without a messages array, a non-empty string inputText yields the one
\* message {role: user, content: inputText} and no system message; without
\* such an inputText the result is none.
C19_InputTextAlone ==
  FreeTextBuilt =>
    LET inputText == Get(ClientPayload, "inputText")
    IN IF inputText.t = "string" /\ inputText.s # << >>
       THEN /\ normalized.kind = "messages"
            /\ normalized.raw = << [role |-> Str(T("user")),
                                    content |-> inputText] >>
            /\ normalized.list = << [role |-> T("user"),
                                     content |-> inputText.s] >>
       ELSE normalized.kind = "undefined"

\* A payload with inputText, promptContent and systemPrompt and no messages
\* array went upstream with the single user message.
C19_Witness ==
  /\ FreeTextBuilt
  /\ upCalls = 1
  /\ Get(ClientPayload, "inputText") = Str(<< "h" >>)
  /\ Get(ClientPayload, "promptContent") = Str(<< "p" >>)
  /\ Get(ClientPayload, "systemPrompt") = Str(<< "s" >>)
  /\ normalized.list = << [role |-> T("user"), content |-> << "h" >>] >>

\* C20: without a messages array, promptContent and inputText (either may be
\* missing, not both) form the user message, preceded by a system message
\* whose text is systemPrompt or a generic default; a payload carrying only
\* promptContent yields messages.
C20_FreeTextWithPromptContent ==
  FreeTextBuilt =>
    LET TextOf(v) == IF v.t = "string" THEN v.s ELSE << >>
        inputText == TextOf(Get(ClientPayload, "inputText"))
        promptContent == TextOf(Get(ClientPayload, "promptContent"))
        systemPrompt == Get(ClientPayload, "systemPrompt")
        IsText(x) == x # << >>
        userContent == Trim(JoinWith(SelectSeq(<< promptContent, inputText >>,
                                               IsText), << " " >>))
    IN IF inputText = << >> /\ promptContent = << >>
       THEN normalized.kind = "undefined"
       ELSE /\ normalized.kind = "messages"
            /\ Len(normalized.list) = 2
            /\ normalized.list[1].role = T("system")
            /\ systemPrompt.t = "string"
                 => normalized.list[1].content = systemPrompt.s
            /\ normalized.list[2] = [role |-> T("user"),
                                     content |-> userContent]

====
